---- MODULE Spec2Model ----
(***************************************************************************)
(* A model of the EcoDocs documentation pipeline scripts.                  *)
(*                                                                         *)
(*   Part 1  JSON values, files, environment values                        *)
(*   Part 2  the conversion state tracker: update_state.py and the         *)
(*           read-only accessors check_failed_files.py, load_state.py,     *)
(*           show_state_summary.py                                         *)
(*   Part 3  the registry builder: generate_registry.py                    *)
(*   Part 4  sort_uspd_key on identifier strings                           *)
(*   Part 5  the frontmatter composer: create_metadata.py                  *)
(*   Part 6  the format converters: convert_test.py and                    *)
(*           convert_test_pandoc.py                                        *)
(***************************************************************************)
EXTENDS Integers, Sequences, FiniteSets, TLC

VARIABLES
    fs,               \* file name -> content, of the two state files
    pc,               \* position of the updater script
    state,            \* update_state.py: the in-memory state
    PROCESSED_FILES,  \* environment value read by the running updater
    FAILED_FILES,     \* environment value read by the running updater
    current_commit,   \* update_state.py: GITHUB_SHA as read
    current_time,     \* update_state.py: the run's timestamp
    clock,            \* number of updater runs started so far
    reads,            \* times the running updater opened current-state.json
    last_run,         \* inputs of the last promoted run
    stdout,           \* what the last accessor script printed
    tree,             \* the files below the working directory, in walk order
    registry,         \* content of USPD_REGISTRY.md
    console,          \* what generate_registry.py printed
    rpc,              \* position of generate_registry.py
    idents,           \* the two identifier strings given to sort_uspd_key
    keys,             \* their sort keys and the comparison of the two
    mfiles,           \* file name -> bytes, of the directory create_meta works in
    meta,             \* the last call of create_meta: arguments and outcome
    mruns,            \* number of create_meta calls so far
    conv,             \* process_fodt_files: its script, surroundings and position
    disk,             \* the intermediate and output files of the converters
    calls,            \* the variant calls made so far: <<document, variant>>
    last              \* the last variant call: what it returned and left behind

trackerVars == <<fs, pc, state, PROCESSED_FILES, FAILED_FILES, current_commit,
                 current_time, clock, reads, last_run, stdout>>

registryVars == <<tree, registry, console, rpc>>

keyVars == <<idents, keys>>
\* No identifier string has been keyed.
KeysIdle == idents = <<>> /\ keys = <<>>

metaVars == <<mfiles, meta, mruns>>
\* No call of create_meta and an empty directory.
MetaIdle == mfiles = <<>> /\ meta = <<>> /\ mruns = 0

convVars == <<conv, disk, calls, last>>
\* No converter script has been started.
ConvIdle ==
    conv = [pc |-> "idle"] /\ disk = {} /\ calls = <<>> /\ last = <<>>

\* The variables the state tracker's scripts leave alone.
outsideTracker == <<registryVars, keyVars, metaVars, convVars>>
\* The variables the registry builder leaves alone.
outsideRegistry == <<trackerVars, keyVars, metaVars, convVars>>

\* The variables a call of sort_uspd_key leaves alone.
outsideKeys == <<trackerVars, registryVars, metaVars, convVars>>

\* The variables create_meta leaves alone.
outsideMeta == <<trackerVars, registryVars, keyVars, convVars>>

\* The variables the format converters leave alone.
outsideConvert == <<trackerVars, registryVars, keyVars, metaVars>>

vars == <<trackerVars, registryVars, keyVars, metaVars, convVars>>

(***************************************************************************)
(* Part 1: JSON values, files, environment values                          *)
(***************************************************************************)

\* Longest environment value drawn, in tokens.
MaxEnvLen == 3
\* Most updater runs of one behaviour of SpecRuns.
MaxRuns == 3

\* The paths that occur in the environment values and state files drawn.
Paths == {"a.fodt", "b.fodt"}
\* One run of whitespace inside an environment value.
WS == " "
\* Values of GITHUB_SHA; "" is what os.environ.get yields when it is unset.
Shas == {"", "4f2a9c1"}

\* JSON values as json.load builds them, tagged by their Python type.
JNull == [t |-> "null"]
JNum(n) == [t |-> "num", n |-> n]
JStr(s) == [t |-> "str", s |-> s]
\* The empty list [].
JArr == [t |-> "arr"]
JObj(f) == [t |-> "obj", o |-> f]
EmptyDict == JObj(<<>>)

IsDict(j) == j.t = "obj"
Put(f, k, v) == [x \in (DOMAIN f) \cup {k} |-> IF x = k THEN v ELSE f[x]]
Del(f, k) == [x \in (DOMAIN f) \ {k} |-> f[x]]
\* dict.get(key, default)
Get(j, k, default) == IF k \in DOMAIN j.o THEN j.o[k] ELSE default

\* File contents: no file, bytes json.load rejects (an empty or truncated
\* file included), or the serialisation of a JSON value.
Missing == [k |-> "missing"]
Garbage == [k |-> "garbage"]
JsonText(j) == [k |-> "json", j |-> j]

\* json.dump(value, f, indent=2)
Dump(j) == JsonText(j)
\* open(name) followed by json.load(f) succeeds
Loads(file) == file.k = "json"
\* the value json.load(f) returns when it succeeds
Load(file) == file.j

CurrentState == "current-state.json"
NewState == "new-state.json"
StateFiles == {CurrentState, NewState}

\* open(name, 'w') ... f.write(content)
WriteFile(files, name, content) == [files EXCEPT ![name] = content]

\* datetime.utcnow().isoformat() + 'Z' of the n-th run
TimeStr(n) == "T" \o ToString(n)

\* Environment values: sequences of tokens, a token being a path or a run of
\* whitespace; two paths are always separated by whitespace.
Tokens == Paths \cup {WS}
SeqsUpTo(S, n) == UNION {[1..m -> S] : m \in 0..n}
EnvValuesUpTo(n) ==
    {e \in SeqsUpTo(Tokens, n) :
        \A i \in 1..(Len(e) - 1) : e[i] = WS \/ e[i + 1] = WS}
EnvValues == EnvValuesUpTo(MaxEnvLen)
\* The environment values drawn in runs of SpecRuns: no path, one path, both
\* paths separated by a space, or one path listed twice.
RunEnvValues ==
    {<<>>, <<"a.fodt", WS, "b.fodt">>, <<"a.fodt", WS, "a.fodt">>}
        \cup {<<p>> : p \in Paths}

IsWord(tok) == tok # WS
\* [f.strip() for f in value.split() if f.strip()]
Split(value) == SelectSeq(value, IsWord)

\* x in list
InList(x, list) == \E i \in 1..Len(list) : list[i] = x
Elems(list) == {list[i] : i \in 1..Len(list)}

(***************************************************************************)
(* Part 2: the conversion state tracker                                    *)
(***************************************************************************)

\* A Python exception leaving the expression or loop that was evaluated.
Raised == [raised |-> TRUE]

\* `key in c` does not raise TypeError: c is a dict, a list or a str.  The
\* lists and strings drawn never hold the key.
Iterable(c) == c.t \in {"obj", "arr", "str"}
\* `key in c`, for an Iterable c
Contains(c, key) == c.t = "obj" /\ key \in DOMAIN c.o
\* len(c) does not raise
Sized(c) == c.t \in {"obj", "arr", "str"}

\* len(value), for a Sized value
PyLen(j) ==
    CASE j.t = "obj" -> Cardinality(DOMAIN j.o)
      [] j.t = "arr" -> 0
      [] j.t = "str" -> Len(j.s)

\* update_state.py lines 6-10: the prior state, {} when the file cannot be
\* opened or parsed.
ReadState(file) == IF Loads(file) THEN Load(file) ELSE EmptyDict

\* update_state.py lines 12-13
EnsureFailedFiles(st) ==
    IF ~Iterable(st) THEN Raised
    ELSE IF Contains(st, "failedFiles") THEN st
    ELSE IF ~IsDict(st) THEN Raised
    ELSE JObj(Put(st.o, "failedFiles", EmptyDict))

\* update_state.py lines 25-29: the success record of one file
SuccessRecord(time, commit) ==
    JObj([convertedAt |-> JStr(time), sourceCommit |-> JStr(commit),
          sourceHash |-> JStr("sha256-placeholder")])

\* The record of a succeeded file is kept: lines 23-24 left out.
KeepRecord(ff, file_path) == ff

\* update_state.py lines 23-24, for an Iterable ff
Forget(ff, file_path) ==
    IF Contains(ff, file_path) THEN JObj(Del(ff.o, file_path)) ELSE ff

\* Every processed file is taken as succeeded: the test of line 22 left out.
ProcessedLoopAll(ff, succ, processed, failed, time, commit, i) ==
    [raised |-> FALSE,
     ff |-> IF IsDict(ff)
            THEN JObj([x \in DOMAIN ff.o \ Elems(processed) |-> ff.o[x]])
            ELSE ff,
     succ |-> [x \in Elems(processed) |-> SuccessRecord(time, commit)]]

\* update_state.py lines 20-29, from the i-th processed file on.  ff is
\* state['failedFiles'], succ is successful_files_current_session.
RECURSIVE ProcessedLoop(_, _, _, _, _, _, _)
ProcessedLoop(ff, succ, processed, failed, time, commit, i) ==
    IF i > Len(processed) THEN [raised |-> FALSE, ff |-> ff, succ |-> succ]
    ELSE LET file_path == processed[i] IN
        IF InList(file_path, failed)
        THEN ProcessedLoop(ff, succ, processed, failed, time, commit, i + 1)
        ELSE IF ~Iterable(ff) THEN Raised
        ELSE ProcessedLoop(
                Forget(ff, file_path),
                Put(succ, file_path, SuccessRecord(time, commit)),
                processed, failed, time, commit, i + 1)

\* update_state.py line 34 does not raise on this record
Countable(rec) ==
    /\ IsDict(rec)
    /\ "attemptCount" \in DOMAIN rec.o
    /\ rec.o["attemptCount"].t = "num"

\* The counter is left as it was.
IncrementNot(rec) == rec

\* update_state.py line 34
Increment(rec) ==
    JObj([rec.o EXCEPT !["attemptCount"] = JNum(rec.o["attemptCount"].n + 1)])

\* update_state.py line 36
FirstFailure == JObj([attemptCount |-> JNum(1)])

\* update_state.py lines 37-41: dict.update of the failure record
Stamp(rec, time, commit) ==
    JObj(Put(Put(Put(rec.o, "lastAttempt", JStr(time)),
                 "lastError", JStr("conversion failed")),
             "sourceCommit", JStr(commit)))

\* update_state.py lines 31-41, from the i-th failed file on
RECURSIVE FailedLoop(_, _, _, _, _)
FailedLoop(ff, failed, time, commit, i) ==
    IF i > Len(failed) THEN [raised |-> FALSE, ff |-> ff]
    ELSE LET file_path == failed[i] IN
        IF ~Iterable(ff) THEN Raised
        ELSE IF Contains(ff, file_path)
        THEN IF ~Countable(ff.o[file_path]) THEN Raised
             ELSE FailedLoop(
                    JObj(Put(ff.o, file_path,
                             Stamp(Increment(ff.o[file_path]), time, commit))),
                    failed, time, commit, i + 1)
        ELSE IF ~IsDict(ff) THEN Raised
        ELSE FailedLoop(
                JObj(Put(ff.o, file_path, Stamp(FirstFailure, time, commit))),
                failed, time, commit, i + 1)

\* The success records the prior state holds are carried over.
FinishCarrying(st, ff, succ, time, commit) ==
    LET old == IF "successfulFiles" \in DOMAIN st.o /\ IsDict(st.o["successfulFiles"])
               THEN st.o["successfulFiles"].o ELSE <<>>
        both == [x \in DOMAIN succ \cup DOMAIN old |->
                    IF x \in DOMAIN succ THEN succ[x] ELSE old[x]]
    IN  JObj(Put(Put(Put(Put(st.o, "failedFiles", ff),
                         "successfulFiles", JObj(both)),
                     "lastProcessedCommit", JStr(commit)),
                 "lastSuccessfulRun", JStr(time)))

\* update_state.py lines 43-45
Finish(st, ff, succ, time, commit) ==
    JObj(Put(Put(Put(Put(st.o, "failedFiles", ff),
                     "successfulFiles", JObj(succ)),
                 "lastProcessedCommit", JStr(commit)),
             "lastSuccessfulRun", JStr(time)))

\* update_state.py lines 20-45 with the second loop running over `looped`
MergeOver(st, processed, failed, looped, time, commit) ==
    LET afterProcessed ==
            ProcessedLoop(st.o["failedFiles"], <<>>, processed, failed,
                          time, commit, 1)
    IN  IF afterProcessed.raised THEN Raised
        ELSE LET afterFailed ==
                    FailedLoop(afterProcessed.ff, looped, time, commit, 1)
             IN  IF afterFailed.raised THEN Raised
                 ELSE Finish(st, afterFailed.ff, afterProcessed.succ,
                             time, commit)

\* The second loop runs over processed_files instead of failed_files.
MergeLoopingProcessed(st, processed, failed, time, commit) ==
    MergeOver(st, processed, failed, processed, time, commit)

\* update_state.py lines 20-45: the merged state, or Raised
Merge(st, processed, failed, time, commit) ==
    MergeOver(st, processed, failed, failed, time, commit)

\* The updater writes the file it has read.
InPlace == CurrentState

\* update_state.py line 47: the file the updater writes
OutputFile == NewState

\* generate_registry.py has printed nothing.
NotRun == [errors |-> <<>>, generated |-> -1]

\* Nothing printed yet.
Quiet == [script |-> "none"]

\* update_state.py line 50: the two numbers of the report line
Report(st) ==
    [script |-> "update_state",
     out |-> <<PyLen(st.o["successfulFiles"]), PyLen(st.o["failedFiles"])>>]

NoRun == [processed |-> <<>>, failed |-> <<>>, known |-> FALSE]

\* update_state.py lines 6-18: load the prior state and read the environment.
UpdateLoad(envs) ==
    /\ pc \in {"idle", "raised", "killed"}
    /\ LET st == EnsureFailedFiles(ReadState(fs[CurrentState])) IN
        IF st = Raised
        THEN /\ pc' = "raised"
             /\ UNCHANGED <<state, PROCESSED_FILES, FAILED_FILES, current_commit>>
        ELSE /\ pc' = "loaded"
             /\ state' = st
             /\ \E p \in envs, f \in envs, sha \in Shas :
                    /\ PROCESSED_FILES' = p
                    /\ FAILED_FILES' = f
                    /\ current_commit' = sha
    /\ clock' = clock + 1
    /\ current_time' = TimeStr(clock + 1)
    /\ reads' = 1
    /\ stdout' = Quiet
    /\ UNCHANGED <<fs, last_run, outsideTracker>>

\* update_state.py lines 17-45: parse the lists and merge them into the state.
UpdateMerge ==
    /\ pc = "loaded"
    /\ LET merged == Merge(state, Split(PROCESSED_FILES), Split(FAILED_FILES),
                           current_time, current_commit) IN
        IF merged = Raised
        THEN pc' = "raised" /\ UNCHANGED state
        ELSE pc' = "merged" /\ state' = merged
    /\ UNCHANGED <<fs, PROCESSED_FILES, FAILED_FILES, current_commit,
                   current_time, clock, reads, last_run, stdout, outsideTracker>>

\* update_state.py line 47: open(..., 'w') creates or truncates the file.
UpdateOpen ==
    /\ pc = "merged"
    /\ fs' = WriteFile(fs, OutputFile, Garbage)
    /\ pc' = "opened"
    /\ UNCHANGED <<state, PROCESSED_FILES, FAILED_FILES, current_commit,
                   current_time, clock, reads, last_run, stdout, outsideTracker>>

\* update_state.py line 48: json.dump, and the with block closes the file.
UpdateDump ==
    /\ pc = "opened"
    /\ fs' = WriteFile(fs, OutputFile, Dump(state))
    /\ pc' = "dumped"
    /\ UNCHANGED <<state, PROCESSED_FILES, FAILED_FILES, current_commit,
                   current_time, clock, reads, last_run, stdout, outsideTracker>>

\* update_state.py line 50: the report line, whose len(state['failedFiles'])
\* raises on a value without a length.
UpdateReport ==
    /\ pc = "dumped"
    /\ IF Sized(state.o["failedFiles"])
       THEN pc' = "done" /\ stdout' = Report(state)
       ELSE pc' = "raised" /\ UNCHANGED stdout
    /\ UNCHANGED <<fs, state, PROCESSED_FILES, FAILED_FILES, current_commit,
                   current_time, clock, reads, last_run, outsideTracker>>

\* The updater process stops (is killed) somewhere between its steps: the
\* output file is then missing, cut short, or complete with no report line.
UpdateKill ==
    /\ pc \in {"loaded", "merged", "opened", "dumped"}
    /\ pc' = "killed"
    /\ UNCHANGED <<fs, state, PROCESSED_FILES, FAILED_FILES, current_commit,
                   current_time, clock, reads, last_run, stdout, outsideTracker>>

\* The caller's promotion of the updater's output: new-state.json replaces
\* current-state.json.
Promote ==
    /\ pc = "done"
    /\ fs' = [fs EXCEPT ![CurrentState] = fs[NewState], ![NewState] = Missing]
    /\ pc' = "idle"
    /\ last_run' = [processed |-> Split(PROCESSED_FILES),
                    failed |-> Split(FAILED_FILES), known |-> TRUE]
    /\ UNCHANGED <<state, PROCESSED_FILES, FAILED_FILES, current_commit,
                   current_time, clock, reads, stdout, outsideTracker>>

\* The retry ceiling of check_failed_files.py.
RetryCeiling == 3

\* d.get('attemptCount', 0) of a failure record
AttemptCount(d) == Get(d, "attemptCount", JNum(0))
\* d.get('attemptCount', 0) yields a number: comparing it or adding to it
\* does not raise.
Numbered(d) == IsDict(d) /\ AttemptCount(d).t = "num"

\* The ceiling itself still counts as below it.
RetryFilesInclusive(failed) ==
    {f \in DOMAIN failed.o : AttemptCount(failed.o[f]).n <= RetryCeiling}

\* check_failed_files.py line 9, for a dict of numbered records
RetryFiles(failed) ==
    {f \in DOMAIN failed.o : AttemptCount(failed.o[f]).n < RetryCeiling}

\* check_failed_files.py lines 5-12: the paths on the printed line; any
\* exception prints the empty line.
CheckFailedFilesOutput(file) ==
    IF ~Loads(file) THEN {}
    ELSE LET st == Load(file) IN
        IF ~IsDict(st) THEN {}
        ELSE LET failed == Get(st, "failedFiles", EmptyDict) IN
            IF ~IsDict(failed) THEN {}
            ELSE IF \E f \in DOMAIN failed.o : ~Numbered(failed.o[f]) THEN {}
            ELSE RetryFiles(failed)

\* str(value), as print shows a JSON value
PyStr(j) ==
    CASE j.t = "str" -> j.s
      [] j.t = "null" -> "None"
      [] j.t = "num" -> ToString(j.n)
      [] j.t = "arr" -> "[]"
      [] j.t = "obj" -> IF DOMAIN j.o = {} THEN "{}" ELSE "{...}"

\* The state itself is printed, whatever its type.
LoadStateUnguarded(file) ==
    IF ~Loads(file) THEN "" ELSE PyStr(Load(file))

\* load_state.py lines 5-10: the printed line
LoadStateOutput(file) ==
    IF ~Loads(file) THEN ""
    ELSE LET st == Load(file) IN
        IF ~IsDict(st) THEN ""
        ELSE PyStr(Get(st, "lastProcessedCommit", JStr("")))

\* Python truth value of a JSON value
Truthy(j) ==
    CASE j.t = "obj" -> DOMAIN j.o # {}
      [] j.t = "arr" -> FALSE
      [] j.t = "str" -> j.s # ""
      [] j.t = "num" -> j.n # 0
      [] j.t = "null" -> FALSE

\* What show_state_summary.py prints: the number of the 'Found N previously
\* failed files' line (absent: no such line) and the (path, attempt number)
\* pairs of the lines after it.
Silent == [found |-> <<>>, listed |-> {}]

\* show_state_summary.py line 13
SummaryLine(failed, f) == <<f, AttemptCount(failed.o[f]).n + 1>>

\* show_state_summary.py lines 5-15: the outputs the script can produce.  The
\* loop prints the records in file order up to the first one that raises;
\* the order of a dict's keys is not modelled, so any set of the sound
\* records may precede it.
SummaryOutputs(file) ==
    IF ~Loads(file) THEN {Silent}
    ELSE LET st == Load(file) IN
        IF ~IsDict(st) THEN {Silent}
        ELSE LET failed == Get(st, "failedFiles", EmptyDict) IN
            IF ~Truthy(failed) \/ ~Sized(failed) THEN {Silent}
            ELSE IF ~IsDict(failed)
            THEN {[found |-> <<PyLen(failed)>>, listed |-> {}]}
            ELSE LET sound == {f \in DOMAIN failed.o : Numbered(failed.o[f])} IN
                IF sound = DOMAIN failed.o
                THEN {[found |-> <<PyLen(failed)>>,
                       listed |-> {SummaryLine(failed, f) : f \in sound}]}
                ELSE {[found |-> <<PyLen(failed)>>,
                       listed |-> {SummaryLine(failed, f) : f \in shown}] :
                            shown \in SUBSET sound}

\* One run of check_failed_files.py.
CheckFailedFiles ==
    /\ pc = "idle"
    /\ stdout' = [script |-> "check_failed_files",
                  out |-> CheckFailedFilesOutput(fs[CurrentState])]
    /\ UNCHANGED <<fs, pc, state, PROCESSED_FILES, FAILED_FILES, current_commit,
                   current_time, clock, reads, last_run, outsideTracker>>

\* One run of load_state.py.
LoadState ==
    /\ pc = "idle"
    /\ stdout' = [script |-> "load_state",
                  out |-> LoadStateOutput(fs[CurrentState])]
    /\ UNCHANGED <<fs, pc, state, PROCESSED_FILES, FAILED_FILES, current_commit,
                   current_time, clock, reads, last_run, outsideTracker>>

\* One run of show_state_summary.py.
ShowStateSummary ==
    /\ pc = "idle"
    /\ \E o \in SummaryOutputs(fs[CurrentState]) :
            stdout' = [script |-> "show_state_summary", out |-> o]
    /\ UNCHANGED <<fs, pc, state, PROCESSED_FILES, FAILED_FILES, current_commit,
                   current_time, clock, reads, last_run, outsideTracker>>

\* State files a run may find.
OnlyCount(n) == JObj([attemptCount |-> JNum(n)])
FailureRecord(n, time, commit) == Stamp(OnlyCount(n), time, commit)
OneFailed(rec) == JObj([p \in {"a.fodt"} |-> rec])
TwoFailed(recA, recB) == JObj(("a.fodt" :> recA) @@ ("b.fodt" :> recB))

\* failedFiles maps of the shape the updater writes and the accessors accept.
SoundFailedMaps ==
    { EmptyDict,
      OneFailed(OnlyCount(2)),
      OneFailed(OnlyCount(0)),
      OneFailed(EmptyDict),
      TwoFailed(FailureRecord(1, "T0", "9e1b7d0"), FailureRecord(3, "T0", "9e1b7d0")),
      TwoFailed(FailureRecord(4, "T0", "9e1b7d0"), OnlyCount(1)) }

\* failedFiles values of another shape.
IllShapedFailedMaps ==
    { JNull, JArr,
      OneFailed(JNum(5)),
      OneFailed(JObj([attemptCount |-> JStr("2")])),
      TwoFailed(OnlyCount(1), JNull) }

\* A state as a completed run leaves it.
WrittenState(ff) ==
    Finish(EmptyDict, ff, "b.fodt" :> SuccessRecord("T0", "9e1b7d0"),
           "T0", "9e1b7d0")

PriorStates ==
    {JNull, JArr, EmptyDict, JObj([lastProcessedCommit |-> JNull])}
        \cup {JObj([failedFiles |-> ff]) : ff \in SoundFailedMaps \cup IllShapedFailedMaps}
        \cup {WrittenState(OneFailed(FailureRecord(2, "T0", "9e1b7d0")))}

InitialFiles == {Missing, Garbage} \cup {JsonText(j) : j \in PriorStates}

\* The state files the runs of SpecRuns start from.
RunInitialFiles ==
    { Missing,
      JsonText(JObj([failedFiles |-> OneFailed(OnlyCount(2))])),
      JsonText(WrittenState(TwoFailed(FailureRecord(1, "T0", "9e1b7d0"),
                                      FailureRecord(3, "T0", "9e1b7d0")))) }

InitFrom(files) ==
    /\ fs \in {[n \in StateFiles |-> IF n = CurrentState THEN f ELSE Missing] :
                    f \in files}
    /\ pc = "idle"
    /\ state = EmptyDict
    /\ PROCESSED_FILES = <<>>
    /\ FAILED_FILES = <<>>
    /\ current_commit = ""
    /\ current_time = ""
    /\ clock = 0
    /\ reads = 0
    /\ last_run = NoRun
    /\ stdout = Quiet
    /\ tree = <<>>
    /\ registry = Missing
    /\ console = NotRun
    /\ rpc = "idle"
    /\ KeysIdle
    /\ MetaIdle
    /\ ConvIdle

\* One pipeline run over any prior state file.
Init == InitFrom(InitialFiles)

Next ==
    \/ clock = 0 /\ UpdateLoad(EnvValues)
    \/ UpdateMerge
    \/ UpdateOpen
    \/ UpdateDump
    \/ UpdateReport
    \/ UpdateKill
    \/ CheckFailedFiles
    \/ LoadState
    \/ ShowStateSummary

Spec == Init /\ [][Next]_vars

\* A sequence of pipeline runs, each promoted before the next.
InitRuns == InitFrom(RunInitialFiles)

NextRuns ==
    \/ clock < MaxRuns /\ UpdateLoad(RunEnvValues)
    \/ UpdateMerge
    \/ UpdateOpen
    \/ UpdateDump
    \/ UpdateReport
    \/ UpdateKill
    \/ Promote
    \/ CheckFailedFiles

SpecRuns == InitRuns /\ [][NextRuns]_vars

(***************************************************************************)
(* Properties of the conversion state tracker                              *)
(***************************************************************************)

\* The paths an environment value lists.
Listed(value) == {value[i] : i \in DOMAIN value} \ {WS}

\* The failure map the completed run started from and the maps it wrote.
PriorFailed == EnsureFailedFiles(ReadState(fs[CurrentState])).o["failedFiles"]
NewFailed == Load(fs[NewState]).o["failedFiles"]
NewSuccessful == Load(fs[NewState]).o["successfulFiles"]

\* C1 (as claimed): after a completed run every path listed in FAILED_FILES
\* has a failure record whose attemptCount is its previous attemptCount plus
\* 1, or 1 when it had no record, and whose lastAttempt, lastError and
\* sourceCommit are this run's timestamp, 'conversion failed' and GITHUB_SHA.
C1_FailedOnceMore ==
    pc = "done" =>
        \A p \in Listed(FAILED_FILES) :
            /\ Contains(NewFailed, p)
            /\ NewFailed.o[p].o["attemptCount"] =
                    JNum(IF Contains(PriorFailed, p)
                         THEN PriorFailed.o[p].o["attemptCount"].n + 1
                         ELSE 1)
            /\ NewFailed.o[p].o["lastAttempt"] = JStr(current_time)
            /\ NewFailed.o[p].o["lastError"] = JStr("conversion failed")
            /\ NewFailed.o[p].o["sourceCommit"] = JStr(current_commit)

\* C2: after a completed run every path listed in PROCESSED_FILES and not in
\* FAILED_FILES has no entry in failedFiles and has an entry in
\* successfulFiles stamped with this run's timestamp and GITHUB_SHA.
C2_SucceededRecorded ==
    pc = "done" =>
        \A p \in Listed(PROCESSED_FILES) \ Listed(FAILED_FILES) :
            /\ ~Contains(NewFailed, p)
            /\ Contains(NewSuccessful, p)
            /\ NewSuccessful.o[p].o["convertedAt"] = JStr(current_time)
            /\ NewSuccessful.o[p].o["sourceCommit"] = JStr(current_commit)

\* C2 witness: a completed run in which a file with a residual failure
\* record succeeded while another file failed.
C2_Witness ==
    /\ pc = "done"
    /\ \E p \in Listed(PROCESSED_FILES) \ Listed(FAILED_FILES) :
            Contains(PriorFailed, p)
    /\ Listed(FAILED_FILES) # {}

\* The file holds a state whose failedFiles, when present, maps paths to
\* records whose attemptCount, when present, is a number.
WellShaped(file) ==
    /\ Loads(file)
    /\ IsDict(Load(file))
    /\ LET failed == Get(Load(file), "failedFiles", EmptyDict) IN
        /\ IsDict(failed)
        /\ \A f \in DOMAIN failed.o :
            /\ IsDict(failed.o[f])
            /\ "attemptCount" \in DOMAIN failed.o[f].o =>
                    failed.o[f].o["attemptCount"].t = "num"

\* The persisted failure map of a well-shaped file.
Persisted(file) == Get(Load(file), "failedFiles", EmptyDict).o

\* C3: on a well-shaped state file the retry-candidate query prints exactly
\* the paths of failedFiles whose record has no attemptCount or an
\* attemptCount below 3; on any file it prints no path outside failedFiles.
C3_RetryGating ==
    stdout.script = "check_failed_files" =>
        LET file == fs[CurrentState] IN
        /\ WellShaped(file) =>
                stdout.out =
                    {p \in DOMAIN Persisted(file) :
                        \/ "attemptCount" \notin DOMAIN Persisted(file)[p].o
                        \/ Persisted(file)[p].o["attemptCount"].n < 3}
        /\ ~WellShaped(file) => stdout.out = {}

\* C3 witness: the query ran on a map that holds a path below the ceiling
\* and a path at the ceiling.
C3_Witness ==
    /\ stdout.script = "check_failed_files"
    /\ WellShaped(fs[CurrentState])
    /\ stdout.out # {}
    /\ \E p \in DOMAIN Persisted(fs[CurrentState]) :
            /\ p \notin stdout.out
            /\ Persisted(fs[CurrentState])[p].o["attemptCount"] = JNum(3)

\* The file tracks a failure of p / p is a retry candidate of the file.
Tracked(file, p) == WellShaped(file) /\ p \in DOMAIN Persisted(file)
Candidate(file, p) == p \in CheckFailedFilesOutput(file)
Excluded(file, p) == Tracked(file, p) /\ ~Candidate(file, p)
Attempts(file, p) == Persisted(file)[p].o["attemptCount"].n
Succeeded(p) == p \in Listed(PROCESSED_FILES) \ Listed(FAILED_FILES)

\* C4: over promoted runs, a file that failed in the promoted run is a retry
\* candidate when its attemptCount is 1 or 2 and is none once the count is 3
\* or more (so a prior count of 2 or more plus one failure excludes it), and
\* an excluded file stays excluded through every promoted run in which it
\* does not succeed.
C4_RetryCeiling ==
    [][(pc = "done" /\ pc' = "idle") =>
        \A p \in Paths :
            LET old == fs[CurrentState]
                new == fs'[CurrentState] IN
            /\ p \in Listed(FAILED_FILES) =>
                /\ Tracked(new, p)
                /\ Attempts(new, p) \in {1, 2} => Candidate(new, p)
                /\ Attempts(new, p) >= 3 => ~Candidate(new, p)
                /\ (Tracked(old, p) /\ Attempts(old, p) >= 2) =>
                        ~Candidate(new, p)
            /\ (Excluded(old, p) /\ ~Succeeded(p)) => Excluded(new, p)
            /\ Succeeded(p) => ~Tracked(new, p)]_vars

\* C4 witness: a file was excluded at the ceiling, failed again in a
\* promoted run, and is still excluded.
C4_Witness ==
    /\ pc = "idle"
    /\ last_run.known
    /\ InList("a.fodt", last_run.failed)
    /\ Excluded(fs[CurrentState], "a.fodt")
    /\ Attempts(fs[CurrentState], "a.fodt") = 4

\* C5: a completed run with empty FAILED_FILES that follows a promoted run
\* with the same PROCESSED_FILES set and empty FAILED_FILES writes the
\* failedFiles map it read.
C5_RepeatedSuccess ==
    (/\ pc = "done"
     /\ last_run.known
     /\ Elems(last_run.processed) = Listed(PROCESSED_FILES)
     /\ Elems(last_run.failed) = {}
     /\ Listed(FAILED_FILES) = {})
        => NewFailed = Load(fs[CurrentState]).o["failedFiles"]

\* C5 witness: the second of two such runs, with a processed file and a
\* failure record of another file carried through both.
C5_Witness ==
    /\ pc = "done"
    /\ last_run.known
    /\ Elems(last_run.processed) = Listed(PROCESSED_FILES)
    /\ Listed(PROCESSED_FILES) # {}
    /\ Elems(last_run.failed) = {}
    /\ Listed(FAILED_FILES) = {}
    /\ DOMAIN NewFailed.o # {}

\* C6: no step of an updater run changes current-state.json; the run opens
\* it once; the only file written is new-state.json, which holds the merged
\* state when the run completes.
C6_InputNeverWritten ==
    [][/\ fs'[CurrentState] = fs[CurrentState]
       /\ reads' <= 1
       /\ \A n \in StateFiles \ {NewState} : fs'[n] = fs[n]
       /\ pc' = "done" => fs'[NewState] = Dump(state')]_vars

\* C6 witness: a run stopped after opening its output, and the previous
\* state is still readable.
C6_Witness ==
    /\ pc = "killed"
    /\ fs[NewState] = Garbage
    /\ WellShaped(fs[CurrentState])
    /\ DOMAIN Persisted(fs[CurrentState]) # {}

\* C7 (as claimed): whatever the prior state file, the updater never raises.
C7_NeverRaises == pc # "raised"

\* The accessor scripts and the empty default each prints.
Accessors == {"check_failed_files", "load_state", "show_state_summary"}
EmptyDefault(script) ==
    CASE script = "check_failed_files" -> {}
      [] script = "load_state" -> ""
      [] script = "show_state_summary" -> Silent

\* The file is missing, unparseable, or holds no JSON object.
NoObject(file) == ~Loads(file) \/ ~IsDict(Load(file))

\* The file is missing, unparseable, or not of the shape of the state file:
\* an object whose failedFiles maps paths to records with a numeric
\* attemptCount and whose lastProcessedCommit is a string.
IllShaped(file) ==
    \/ ~WellShaped(file)
    \/ Get(Load(file), "lastProcessedCommit", JStr("")).t # "str"

\* C8 (as claimed): on a missing, unparseable or ill-shaped state file every
\* accessor prints its empty default.
C8_EmptyDefault ==
    (stdout.script \in Accessors /\ IllShaped(fs[CurrentState]))
        => stdout.out = EmptyDefault(stdout.script)

\* C8 (amended): an accessor run changes no file and leaves the updater
\* where it is; on a state file that is missing, unparseable or no JSON
\* object every accessor prints its empty default, and the retry-candidate
\* query prints the empty line on every file that is not well-shaped.
C8_AccessorsTolerant ==
    [][(stdout'.script \in Accessors /\ stdout' # stdout) =>
        /\ fs' = fs
        /\ pc' = pc
        /\ NoObject(fs[CurrentState]) =>
                stdout'.out = EmptyDefault(stdout'.script)
        /\ (stdout'.script = "check_failed_files" /\ ~WellShaped(fs[CurrentState]))
                => stdout'.out = {}]_vars

\* C8 witness: the last-processed-commit query ran on a parseable file that
\* holds no JSON object.
C8_Witness ==
    /\ stdout.script = "load_state"
    /\ Loads(fs[CurrentState])
    /\ NoObject(fs[CurrentState])

(***************************************************************************)
(* Part 3: the registry builder, generate_registry.py                      *)
(*                                                                         *)
(* Text is a sequence of one-character strings.  An optional value (None   *)
(* or a string) is the empty sequence or the one-element sequence of the   *)
(* string.                                                                 *)
(***************************************************************************)

\* Most files of a tree drawn.
MaxDocs == 3

None == <<>>
Some(x) == <<x>>
\* Python truth value of an optional string: not None and not ''
Given(opt) == opt # None /\ opt[1] # <<>>

Digits == {"0", "1", "2", "3", "4", "5", "6", "7", "8", "9"}
DigitSeq == <<"0", "1", "2", "3", "4", "5", "6", "7", "8", "9">>
Upper == {"A", "B", "C", "D", "E", "F", "G", "H", "I", "J", "K", "L", "M",
          "N", "O", "P", "Q", "R", "S", "T", "U", "V", "W", "X", "Y", "Z"}
\* \s of the re module, among the characters drawn
White == {" ", "\t", "\n"}
HexUpper == Digits \cup {"A", "B", "C", "D", "E", "F"}
HexLower == <<"a", "b", "c", "d", "e", "f">>
HexLowerUp == <<"A", "B", "C", "D", "E", "F">>

UpperSeq == <<"A", "B", "C", "D", "E", "F", "G", "H", "I", "J", "K", "L", "M",
             "N", "O", "P", "Q", "R", "S", "T", "U", "V", "W", "X", "Y", "Z">>
LowerSeq == <<"a", "b", "c", "d", "e", "f", "g", "h", "i", "j", "k", "l", "m",
             "n", "o", "p", "q", "r", "s", "t", "u", "v", "w", "x", "y", "z">>
IndexIn(seq, c) == CHOOSE i \in 1..Len(seq) : seq[i] = c

\* int(c) of one digit
DigitVal(c) == IndexIn(DigitSeq, c) - 1
\* ord(c), for the characters drawn
Ord(c) ==
    CASE c \in Digits -> 48 + DigitVal(c)
      [] c \in Upper -> 64 + IndexIn(UpperSeq, c)
      [] c \in Elems(LowerSeq) -> 96 + IndexIn(LowerSeq, c)
      [] c = "\t" -> 9
      [] c = "\n" -> 10
      [] c = " " -> 32
      [] c = "#" -> 35
      [] c = "'" -> 39
      [] c = "-" -> 45
      [] c = "." -> 46
      [] c = "/" -> 47
      [] c = ":" -> 58
      [] c = "_" -> 95

\* int(text) of a run of digits
RECURSIVE ToInt(_)
ToInt(text) ==
    IF text = <<>> THEN 0
    ELSE 10 * ToInt(SubSeq(text, 1, Len(text) - 1)) + DigitVal(text[Len(text)])

\* str.upper() of one hexadecimal character
UpperOf(c) ==
    IF c \in Elems(HexLower) THEN HexLowerUp[IndexIn(HexLower, c)] ELSE c
UpperText(text) == [i \in 1..Len(text) |-> UpperOf(text[i])]

RECURSIVE LStrip(_)
LStrip(text) ==
    IF text # <<>> /\ text[1] \in White THEN LStrip(Tail(text)) ELSE text
RECURSIVE RStrip(_)
RStrip(text) ==
    IF text # <<>> /\ text[Len(text)] \in White
    THEN RStrip(SubSeq(text, 1, Len(text) - 1))
    ELSE text
\* str.strip()
Strip(text) == RStrip(LStrip(text))

\* str.endswith(suffix)
EndsWith(text, suffix) ==
    /\ Len(text) >= Len(suffix)
    /\ SubSeq(text, Len(text) - Len(suffix) + 1, Len(text)) = suffix

\* Length of what [A-Z]{2}\.ECO\.\d{5}-\d{2} matches.
UspdLen == 15

\* [A-Z]{2}\.ECO\.\d{5}-\d{2} matches at the start of text
StartsWithUspd(text) ==
    /\ Len(text) >= UspdLen
    /\ text[1] \in Upper /\ text[2] \in Upper
    /\ SubSeq(text, 3, 7) = <<".", "E", "C", "O", ".">>
    /\ \A i \in 8..12 : text[i] \in Digits
    /\ text[13] = "-"
    /\ text[14] \in Digits /\ text[15] \in Digits

\* generate_registry.py lines 6-9
extract_uspd_from_filename(filename) ==
    IF /\ StartsWithUspd(filename)
       /\ Len(filename) >= UspdLen + 2
       /\ filename[UspdLen + 1] = "_"
       /\ filename[UspdLen + 2] \in Digits
    THEN Some(SubSeq(filename, 1, UspdLen))
    ELSE None

\* A document's content is the sequence of its labelled spans within the
\* first 10000 characters: for each place where the markup of a label
\* ('USPD:', 'Name' ':', 'CID' ':', 'Short Description...') is followed by a
\* text span, the label and the text of that span.
Labels == {"USPD", "Name", "CID", "Short Description"}

\* The capture of the pattern of `label` in the span text `value`, None when
\* the pattern does not match there.
Capture(label, value) ==
    CASE label = "USPD" ->
            IF StartsWithUspd(LStrip(value))
            THEN Some(SubSeq(LStrip(value), 1, UspdLen)) ELSE None
      [] label = "CID" ->
            IF /\ Len(LStrip(value)) >= 32
               /\ \A i \in 1..32 : UpperOf(LStrip(value)[i]) \in HexUpper
            THEN Some(UpperText(SubSeq(LStrip(value), 1, 32))) ELSE None
      [] OTHER ->
            IF value # <<>> THEN Some(Strip(value)) ELSE None

\* re.search: the capture of the first span of the label that matches
RECURSIVE Search(_, _, _)
Search(label, content, i) ==
    IF i > Len(content) THEN None
    ELSE IF content[i].label = label /\ Capture(label, content[i].value) # None
    THEN Capture(label, content[i].value)
    ELSE Search(label, content, i + 1)

NoMetadata == [uspd |-> None, name |-> None, cid |-> None, description |-> None]

\* The file name is tried before the body.
extract_metadata_name_first(doc) ==
    IF ~doc.readable THEN NoMetadata
    ELSE [uspd |-> IF Given(extract_uspd_from_filename(doc.name))
                   THEN extract_uspd_from_filename(doc.name)
                   ELSE Search("USPD", doc.content, 1),
          name |-> Search("Name", doc.content, 1),
          cid |-> Search("CID", doc.content, 1),
          description |-> Search("Short Description", doc.content, 1)]

\* generate_registry.py lines 11-49: (uspd, name, cid, description); a file
\* that cannot be read or decoded yields four None.
extract_metadata_from_fodt(doc) ==
    IF ~doc.readable THEN NoMetadata
    ELSE [uspd |-> IF Given(Search("USPD", doc.content, 1))
                   THEN Search("USPD", doc.content, 1)
                   ELSE extract_uspd_from_filename(doc.name),
          name |-> Search("Name", doc.content, 1),
          cid |-> Search("CID", doc.content, 1),
          description |-> Search("Short Description", doc.content, 1)]

\* The pattern is required to match the whole string.
sort_uspd_key_whole(uspd) ==
    IF StartsWithUspd(uspd) /\ Len(uspd) = UspdLen
    THEN <<SubSeq(uspd, 1, 2), ToInt(SubSeq(uspd, 8, 12)), ToInt(SubSeq(uspd, 14, 15))>>
    ELSE <<uspd, 0, 0>>

\* generate_registry.py lines 51-57
sort_uspd_key(uspd) ==
    IF StartsWithUspd(uspd)
    THEN <<SubSeq(uspd, 1, 2), ToInt(SubSeq(uspd, 8, 12)), ToInt(SubSeq(uspd, 14, 15))>>
    ELSE <<uspd, 0, 0>>

\* a < b for two str, by code points
RECURSIVE TextLess(_, _)
TextLess(a, b) ==
    IF b = <<>> THEN FALSE
    ELSE IF a = <<>> THEN TRUE
    ELSE IF a[1] # b[1] THEN Ord(a[1]) < Ord(b[1])
    ELSE TextLess(Tail(a), Tail(b))

\* a < b for two sort keys (tuple comparison)
KeyLess(a, b) ==
    \/ TextLess(a[1], b[1])
    \/ a[1] = b[1] /\ a[2] < b[2]
    \/ a[1] = b[1] /\ a[2] = b[2] /\ a[3] < b[3]

NA == <<"N", "/", "A">>
\* value or 'N/A'
OrNA(opt) == IF Given(opt) THEN opt[1] ELSE NA

\* An entry is made for every scanned document.
EntryOfAny(doc) ==
    LET m == extract_metadata_from_fodt(doc) IN
    <<[uspd |-> OrNA(m.uspd), name |-> OrNA(m.name), cid |-> OrNA(m.cid),
       description |-> OrNA(m.description)]>>

\* generate_registry.py lines 72-80: the entries one document adds
EntryOf(doc) ==
    LET m == extract_metadata_from_fodt(doc) IN
    IF Given(m.uspd)
    THEN <<[uspd |-> m.uspd[1], name |-> OrNA(m.name), cid |-> OrNA(m.cid),
            description |-> OrNA(m.description)]>>
    ELSE <<>>

ScannedDirs == <<"components", "libraries", "guides">>
FodtSuffix == <<".", "f", "o", "d", "t">>

InDir(dir, docs) == SelectSeq(docs, LAMBDA d : d.dir = dir)
\* generate_registry.py lines 64-71: the .fodt files in the order scanned
Scanned(docs) ==
    SelectSeq(InDir(ScannedDirs[1], docs) \o InDir(ScannedDirs[2], docs)
                \o InDir(ScannedDirs[3], docs),
              LAMBDA d : EndsWith(d.name, FodtSuffix))

\* generate_registry.py lines 61-80
RECURSIVE Collect(_)
Collect(docs) ==
    IF docs = <<>> THEN <<>>
    ELSE Collect(SubSeq(docs, 1, Len(docs) - 1)) \o EntryOf(docs[Len(docs)])

\* The entries are left in the order scanned.
KeepOrder(entries) == entries

\* list.sort(key=...): stable, by insertion
RECURSIVE SortEntries(_)
SortEntries(entries) ==
    IF entries = <<>> THEN <<>>
    ELSE LET rest == SortEntries(SubSeq(entries, 1, Len(entries) - 1))
             e == entries[Len(entries)]
             after == {i \in 1..Len(rest) :
                        KeyLess(sort_uspd_key(e.uspd), sort_uspd_key(rest[i].uspd))}
             at == IF after = {} THEN Len(rest) + 1
                   ELSE CHOOSE i \in after : \A j \in after : i <= j
         IN  SubSeq(rest, 1, at - 1) \o <<e>> \o SubSeq(rest, at, Len(rest))

Sep == <<" ", ":", " ">>
\* generate_registry.py line 89
Line(entry) ==
    entry.uspd \o Sep \o entry.name \o Sep \o entry.cid \o Sep \o entry.description

\* generate_registry.py line 86
RegistryHeader ==
    << <<"#", " ", "E", "C", "O", "O", "S", " ", "D", "O", "C", "U", "M", "E", "N", "T", "S", " ", "R", "E", "G", "I", "S", "T", "R", "Y">>,
       <<>>,
       <<"#", "#", " ", "F", "o", "r", "m", "a", "t", " ", "U", "S", "P",
       "D", " ", "n", "u", "m", "b", "e", "r", " ", ":", " ", "P", "r",
       "o", "d", "u", "c", "t", "'", "s", " ", "N", "a", "m", "e", " ",
       ":", " ", "C", "o", "m", "p", "o", "n", "e", "n", "t", "'", "s",
       " ", "C", "I", "D", " ", ":", " ", "S", "h", "o", "r", "t", " ",
       "d", "e", "s", "c", "r", "i", "p", "t", "i", "o", "n">>,
       <<>> >>

\* '\n'.join(lines) + '\n', as the sequence of the lines
TextFile(lines) == [k |-> "text", lines |-> lines]

\* generate_registry.py lines 47-48: the documents reported as unreadable
Reported(docs) == SelectSeq(docs, LAMBDA d : ~d.readable)

\* One run of generate_registry.py.
GenerateRegistry ==
    /\ rpc = "idle"
    /\ LET entries == SortEntries(Collect(Scanned(tree))) IN
        /\ registry' = TextFile(RegistryHeader \o
                                [i \in 1..Len(entries) |-> Line(entries[i])])
        /\ console' = [errors |-> Reported(Scanned(tree)),
                       generated |-> Len(entries)]
    /\ rpc' = "done"
    /\ UNCHANGED <<tree, outsideRegistry>>

\* A file below the working directory: its top-level directory, its file
\* name, whether open() and read() succeed, and its content.
Document(dir, name, readable, content) ==
    [dir |-> dir, name |-> name, readable |-> readable, content |-> content]
Span(label, value) == [label |-> label, value |-> value]

\* The identifier is in the file name only.
NamedOnly ==
    Document("components",
        <<"R", "U", ".", "E", "C", "O", ".", "0", "0", "0", "0", "5", "-",
        "0", "1", "_", "9", "0", ".", "f", "o", "d", "t">>,
        TRUE,
        <<Span("Name",
             <<" ", "E", "c", "o", ".", "C", "O", "F", "F", "1">>)>>)

\* All four fields are in the body.
Labelled ==
    Document("libraries",
        <<"c", "o", "f", "f", ".", "f", "o", "d", "t">>,
        TRUE,
        <<Span("USPD",
             <<" ", "U", "S", ".", "E", "C", "O", ".", "0", "0", "0", "2",
             "3", "-", "0", "1", " ", "9", "0", " ", "0", "1", " ", "1">>),
        Span("Name",
             <<" ", "E", "c", "o", ".", "L", "i", "b">>),
        Span("CID",
             <<" ", "1", "c", "d", "f", "0", "9", "3", "d", "2", "2", "e",
             "f", "4", "9", "1", "7", "b", "c", "2", "9", "1", "e", "4", "8",
             "8", "9", "8", "6", "6", "2", "1", "4">>),
        Span("Short Description",
             <<"I", "m", "p", "l", "e", "m", "e", "n", "t", "s", " ", "C",
             "O", "F", "F">>)>>)

\* The body carries the identifier of NamedOnly.
SameUspd ==
    Document("guides",
        <<"g", "u", "i", "d", "e", ".", "f", "o", "d", "t">>,
        TRUE,
        <<Span("USPD",
             <<"R", "U", ".", "E", "C", "O", ".", "0", "0", "0", "0", "5",
             "-", "0", "1">>),
        Span("Name",
             <<"G", "u", "i", "d", "e">>)>>)

\* No identifier in the body or the file name.
Anonymous ==
    Document("components",
        <<"r", "e", "a", "d", "m", "e", ".", "f", "o", "d", "t">>,
        TRUE,
        <<Span("Name",
             <<"R", "e", "a", "d", "m", "e">>)>>)

\* The file cannot be decoded; its name carries an identifier.
Unreadable ==
    Document("components",
        <<"R", "U", ".", "E", "C", "O", ".", "0", "0", "0", "0", "7", "-",
        "0", "1", "_", "9", "0", ".", "f", "o", "d", "t">>,
        FALSE,
        <<>>)

\* A lower-case identifier in the body, no '_' and digits in the file name.
Malformed ==
    Document("libraries",
        <<"R", "U", ".", "E", "C", "O", ".", "0", "0", "0", "0", "5", "-",
        "0", "1", ".", "f", "o", "d", "t">>,
        TRUE,
        <<Span("USPD",
             <<" ", "r", "u", ".", "e", "c", "o", ".", "0", "0", "0", "0",
             "5", "-", "0", "1">>)>>)

\* Not a .fodt file.
NotFodt ==
    Document("components",
        <<"R", "U", ".", "E", "C", "O", ".", "0", "0", "0", "0", "9", "-",
        "0", "1", "_", "9", "0", ".", "m", "d">>,
        TRUE,
        <<>>)

\* Outside the scanned directories.
Elsewhere ==
    Document("drafts",
        <<"U", "S", ".", "E", "C", "O", ".", "0", "0", "0", "0", "1", "-",
        "0", "2", "_", "1", ".", "f", "o", "d", "t">>,
        TRUE,
        <<>>)

\* Different identifiers in the body and the file name.
BodyAndName ==
    Document("components",
        <<"R", "U", ".", "E", "C", "O", ".", "0", "0", "0", "1", "0", "-",
        "0", "1", "_", "1", ".", "f", "o", "d", "t">>,
        TRUE,
        <<Span("USPD",
             <<"U", "S", ".", "E", "C", "O", ".", "0", "0", "0", "0", "2",
             "-", "1", "0">>)>>)

\* The identifier of Labelled with a later minor number, in the file name.
LaterMinor ==
    Document("components",
        <<"U", "S", ".", "E", "C", "O", ".", "0", "0", "0", "2", "3", "-",
        "0", "2", "_", "1", ".", "f", "o", "d", "t">>,
        TRUE,
        <<>>)

DocPool == {NamedOnly, Labelled, SameUspd, Anonymous, Unreadable, Malformed,
            NotFodt, Elsewhere, BodyAndName, LaterMinor}

\* The trees drawn: up to MaxDocs distinct files, in walk order.
Trees ==
    {t \in SeqsUpTo(DocPool, MaxDocs) :
        \A i, j \in 1..Len(t) : i # j => t[i] # t[j]}

\* No updater run and no state file.
TrackerIdle ==
    /\ fs = [n \in StateFiles |-> Missing]
    /\ pc = "idle"
    /\ state = EmptyDict
    /\ PROCESSED_FILES = <<>>
    /\ FAILED_FILES = <<>>
    /\ current_commit = ""
    /\ current_time = ""
    /\ clock = 0
    /\ reads = 0
    /\ last_run = NoRun
    /\ stdout = Quiet

\* No registry build and no file below the working directory.
RegistryIdle ==
    /\ tree = <<>>
    /\ registry = Missing
    /\ console = NotRun
    /\ rpc = "idle"

InitRegistry ==
    /\ tree \in Trees
    /\ registry = Missing
    /\ console = NotRun
    /\ rpc = "idle"
    /\ KeysIdle
    /\ MetaIdle
    /\ ConvIdle
    /\ fs = [n \in StateFiles |-> Missing]
    /\ pc = "idle"
    /\ state = EmptyDict
    /\ PROCESSED_FILES = <<>>
    /\ FAILED_FILES = <<>>
    /\ current_commit = ""
    /\ current_time = ""
    /\ clock = 0
    /\ reads = 0
    /\ last_run = NoRun
    /\ stdout = Quiet

NextRegistry == GenerateRegistry

SpecRegistry == InitRegistry /\ [][NextRegistry]_vars

(***************************************************************************)
(* Part 4: sort_uspd_key on identifier strings                             *)
(***************************************************************************)

\* The identifier strings drawn: a locale part, '.ECO.' in either case, a
\* major part, a minor part and a tail, and a few short strings.
LocaleParts == {<<"R", "U">>, <<"U", "S">>, <<"r", "u">>, <<"R">>, <<"A", "A">>, <<"Z", "Z">>}
StemParts == {<<".", "E", "C", "O", ".">>, <<".", "e", "c", "o", ".">>}
MajorParts == {<<"0", "0", "0", "0", "5">>, <<"0", "0", "0", "2", "3">>, <<"0", "0", "0", "5">>}
MinorParts == {<<"-", "0", "1">>, <<"-", "1", "0">>, <<"-", "1">>, <<"_", "0", "1">>}
TailParts == {<<>>, <<" ", "9", "0", " ", "0", "1", " ", "1">>, <<"2">>}
ShortIdents == {<<>>, <<"R", "U">>, <<"Z", "Z">>}
IdentStrings ==
    ShortIdents \cup
    {l \o st \o ma \o mi \o tl :
        l \in LocaleParts, st \in StemParts, ma \in MajorParts,
        mi \in MinorParts, tl \in TailParts}
\* The strings each identifier string is compared with.
ComparedIdents ==
    {<<>>,
     <<"A", "A">>,
     <<"R", "U">>,
     <<"Z", "Z">>,
     <<"R", "U", ".", "E", "C", "O", ".", "0", "0", "0", "0", "5", "-", "0", "1">>,
     <<"U", "S", ".", "E", "C", "O", ".", "0", "0", "0", "2", "3", "-", "1", "0">>,
     <<"r", "u", ".", "e", "c", "o", ".", "0", "0", "0", "0", "5", "-", "0", "1">>,
     <<"R", "U", ".", "E", "C", "O", ".", "0", "0", "0", "5", "-", "0", "1">>,
     <<"R", "U", ".", "E", "C", "O", ".", "0", "0", "0", "0", "5", "-", "0", "1", " ", "9", "0", " ", "0", "1", " ", "1">>,
     <<"S", "U", ".", "E", "C", "O", ".", "0", "0", "0", "0", "5">>}

\* sort_uspd_key of two identifier strings, and key(a) < key(b) as
\* list.sort compares the keys.
SortKeys ==
    /\ keys = <<>>
    /\ idents # <<>>
    /\ keys' = <<[a |-> sort_uspd_key(idents[1]),
                  b |-> sort_uspd_key(idents[2]),
                  less |-> KeyLess(sort_uspd_key(idents[1]),
                                   sort_uspd_key(idents[2]))]>>
    /\ UNCHANGED <<idents, outsideKeys>>

InitKeys ==
    /\ idents \in IdentStrings \X ComparedIdents
    /\ keys = <<>>
    /\ TrackerIdle
    /\ RegistryIdle
    /\ MetaIdle
    /\ ConvIdle

NextKeys == SortKeys

SpecKeys == InitKeys /\ [][NextKeys]_vars

(***************************************************************************)
(* Properties of the registry builder                                      *)
(***************************************************************************)

\* The entry lines of the registry written.
EntryLines == SubSeq(registry.lines, Len(RegistryHeader) + 1, Len(registry.lines))
\* The identifier an entry line starts with.
LineUspd(line) == SubSeq(line, 1, UspdLen)

\* C9 (as claimed): the registry written holds at most one entry line per
\* identifier.
C9_OneLinePerIdentifier ==
    rpc = "done" =>
        \A i, j \in 1..Len(EntryLines) :
            i # j => LineUspd(EntryLines[i]) # LineUspd(EntryLines[j])

\* An identifier can be extracted from the document's body or file name.
HasIdentifier(doc) ==
    /\ doc.readable
    /\ \/ \E i \in 1..Len(doc.content) :
            /\ doc.content[i].label = "USPD"
            /\ StartsWithUspd(LStrip(doc.content[i].value))
       \/ extract_uspd_from_filename(doc.name) # None

\* C10: the build completes for every tree; the registry holds one entry
\* line for each scanned document that has an identifier and none for the
\* others; every entry line starts with an identifier followed by ' : ',
\* never with the placeholder; every unreadable document is reported.
C10_DropRule ==
    rpc = "done" =>
        /\ registry.k = "text"
        /\ Len(EntryLines) =
                Cardinality({i \in 1..Len(Scanned(tree)) : HasIdentifier(Scanned(tree)[i])})
        /\ \A i \in 1..Len(EntryLines) :
            /\ StartsWithUspd(EntryLines[i])
            /\ SubSeq(EntryLines[i], UspdLen + 1, UspdLen + 3) = Sep
            /\ SubSeq(EntryLines[i], 1, 3) # NA
            /\ \E k \in 1..Len(Scanned(tree)) :
                /\ HasIdentifier(Scanned(tree)[k])
                /\ extract_metadata_from_fodt(Scanned(tree)[k]).uspd
                        = Some(LineUspd(EntryLines[i]))
        /\ \A k \in 1..Len(Scanned(tree)) :
            ~Scanned(tree)[k].readable =>
                \E e \in 1..Len(console.errors) : console.errors[e] = Scanned(tree)[k]
        /\ console.generated = Len(EntryLines)

\* C10 witness: a build over an unreadable document, a document without an
\* identifier and a document with one, which wrote one entry line.
C10_Witness ==
    /\ rpc = "done"
    /\ \E i, j, k \in 1..Len(tree) :
        /\ tree[i] = Unreadable
        /\ tree[j] = Anonymous
        /\ tree[k] = NamedOnly
    /\ Len(EntryLines) = 1

\* The sort key read off an entry line: locale code, major number and minor
\* number as integers.
LineKey(line) ==
    <<SubSeq(line, 1, 2), ToInt(SubSeq(line, 8, 12)), ToInt(SubSeq(line, 14, 15))>>

\* The line of a document's extracted fields, 'N/A' for each of name, CID
\* and description that was not extracted.
ExpectedLine(doc) ==
    LET m == extract_metadata_from_fodt(doc) IN
    m.uspd[1] \o Sep \o (IF m.name = None THEN NA ELSE m.name[1])
              \o Sep \o (IF m.cid = None THEN NA ELSE m.cid[1])
              \o Sep \o (IF m.description = None THEN NA ELSE m.description[1])

\* C11: the registry written is the fixed header followed by the entry
\* lines 'identifier : name : CID : description' of the scanned documents
\* that have an identifier, in non-decreasing order of (locale code, major
\* number, minor number), with 'N/A' for every field not extracted.
C11_SortedShape ==
    rpc = "done" =>
        /\ registry.k = "text"
        /\ Len(registry.lines) >= Len(RegistryHeader)
        /\ SubSeq(registry.lines, 1, Len(RegistryHeader)) = RegistryHeader
        /\ \A i \in 1..(Len(EntryLines) - 1) :
                ~KeyLess(LineKey(EntryLines[i + 1]), LineKey(EntryLines[i]))
        /\ \A i \in 1..Len(EntryLines) :
                \E k \in 1..Len(Scanned(tree)) :
                    /\ HasIdentifier(Scanned(tree)[k])
                    /\ EntryLines[i] = ExpectedLine(Scanned(tree)[k])
        /\ \A k \in 1..Len(Scanned(tree)) :
                HasIdentifier(Scanned(tree)[k]) =>
                    \E i \in 1..Len(EntryLines) :
                        EntryLines[i] = ExpectedLine(Scanned(tree)[k])

\* C11 witness: a build over three documents scanned in the order US 23-02,
\* US 23-01, RU 5-01, which wrote them in the order RU 5-01, US 23-01,
\* US 23-02, the first and the last with 'N/A' fields.
C11_Witness ==
    /\ rpc = "done"
    /\ Scanned(tree) = <<LaterMinor, Labelled, SameUspd>>
    /\ Len(EntryLines) = 3
    /\ EntryLines[1] = ExpectedLine(SameUspd)
    /\ EntryLines[2] = ExpectedLine(Labelled)
    /\ EntryLines[3] = ExpectedLine(LaterMinor)
    /\ SubSeq(EntryLines[3], UspdLen + 1, Len(EntryLines[3]))
            = Sep \o NA \o Sep \o NA \o Sep \o NA

\* The places of a readable document's body where an identifier follows the
\* USPD label.
BodyPlaces(doc) ==
    {i \in 1..Len(doc.content) :
        /\ doc.content[i].label = "USPD"
        /\ StartsWithUspd(LStrip(doc.content[i].value))}
\* The file name starts with an identifier followed by '_' and a digit.
NameCarriesUspd(name) ==
    /\ StartsWithUspd(name)
    /\ Len(name) > UspdLen + 1
    /\ name[UspdLen + 1] = "_"
    /\ name[UspdLen + 2] \in Digits
\* The identifiers of a readable document by the fallback rule: the first
\* one in the body; the one of the file name when the body has none.
IdentifiersOf(doc) ==
    IF BodyPlaces(doc) # {}
    THEN {SubSeq(LStrip(doc.content[i].value), 1, UspdLen) :
            i \in {j \in BodyPlaces(doc) : \A k \in BodyPlaces(doc) : j <= k}}
    ELSE IF NameCarriesUspd(doc.name) THEN {SubSeq(doc.name, 1, UspdLen)}
    ELSE {}
\* The identifiers the scanned readable documents have by the fallback rule.
ScannedIdentifiers ==
    UNION {IdentifiersOf(Scanned(tree)[k]) :
            k \in {j \in 1..Len(Scanned(tree)) : Scanned(tree)[j].readable}}

\* C14: for every identifier, the registry holds as many entry lines
\* beginning with it as there are scanned readable documents whose body
\* identifier it is, or whose file name identifier it is when their body has
\* none; a readable RU.ECO.00005-01_90.fodt without an in-body identifier
\* gives a line beginning 'RU.ECO.00005-01 : '; a document with no body
\* identifier whose file name does not start with an identifier, '_' and a
\* digit gives no line.
C14_IdentifierFallback ==
    rpc = "done" =>
        /\ \A i \in 1..Len(EntryLines) : LineUspd(EntryLines[i]) \in ScannedIdentifiers
        /\ \A u \in ScannedIdentifiers :
                Cardinality({i \in 1..Len(EntryLines) : LineUspd(EntryLines[i]) = u})
                  = Cardinality({k \in 1..Len(Scanned(tree)) :
                        /\ Scanned(tree)[k].readable
                        /\ u \in IdentifiersOf(Scanned(tree)[k])})
        /\ (\E k \in 1..Len(tree) : tree[k] = NamedOnly) =>
                \E i \in 1..Len(EntryLines) :
                    SubSeq(EntryLines[i], 1, UspdLen + 3)
                        = <<"R", "U", ".", "E", "C", "O", ".", "0", "0", "0", "0", "5", "-", "0", "1", " ", ":", " ">>

\* C14 witness: a build over RU.ECO.00005-01_90.fodt without a body
\* identifier, a document whose body and file name carry different
\* identifiers, and a document with neither, which wrote the line of the
\* file name identifier and the line of the body identifier only.
C14_Witness ==
    /\ rpc = "done"
    /\ \E i, j, k \in 1..Len(tree) :
        /\ tree[i] = NamedOnly
        /\ tree[j] = BodyAndName
        /\ tree[k] = Malformed
    /\ Len(EntryLines) = 2
    /\ LineUspd(EntryLines[1]) = <<"R", "U", ".", "E", "C", "O", ".", "0", "0", "0", "0", "5", "-", "0", "1">>
    /\ LineUspd(EntryLines[2]) = <<"U", "S", ".", "E", "C", "O", ".", "0", "0", "0", "0", "2", "-", "1", "0">>

(***************************************************************************)
(* Properties of sort_uspd_key                                             *)
(***************************************************************************)

\* The string is a well-formed identifier XX.ECO.NNNNN-NN and nothing more.
IsUspd(text) == Len(text) = UspdLen /\ StartsWithUspd(text)
\* The numbers NNNNN and NN written at the identifier's places.
MajorOf(text) ==
    DigitVal(text[8]) * 10000 + DigitVal(text[9]) * 1000
        + DigitVal(text[10]) * 100 + DigitVal(text[11]) * 10 + DigitVal(text[12])
MinorOf(text) == DigitVal(text[14]) * 10 + DigitVal(text[15])

\* C12 (as claimed): the key of every string is a 3-tuple; the key of a
\* well-formed identifier XX.ECO.NNNNN-NN is (XX, NNNNN, NN) and the key of
\* every other string is (the string, 0, 0).
C12_SortKeyTotal ==
    keys # <<>> =>
        /\ Len(keys[1].a) = 3
        /\ IsUspd(idents[1]) =>
                keys[1].a = <<SubSeq(idents[1], 1, 2), MajorOf(idents[1]),
                              MinorOf(idents[1])>>
        /\ ~IsUspd(idents[1]) => keys[1].a = <<idents[1], 0, 0>>

\* C12 (amended): the key of every string is a 3-tuple; the key of a string
\* that begins with a well-formed identifier XX.ECO.NNNNN-NN, whatever
\* follows it, is (XX, NNNNN, NN), and the key of every string that does not
\* begin with one is (the string, 0, 0).
C12_SortKeyOfPrefix ==
    keys # <<>> =>
        /\ Len(keys[1].a) = 3
        /\ StartsWithUspd(idents[1]) =>
                keys[1].a = <<SubSeq(idents[1], 1, 2), MajorOf(idents[1]),
                              MinorOf(idents[1])>>
        /\ ~StartsWithUspd(idents[1]) => keys[1].a = <<idents[1], 0, 0>>

\* C12 witness: the key (US, 23, 10) of an identifier followed by more text
\* and the fallback key of a lower-case identifier have been computed.
C12_Witness ==
    /\ keys # <<>>
    /\ idents[1] = <<"U", "S", ".", "E", "C", "O", ".", "0", "0", "0", "2", "3", "-", "1", "0", " ", "9", "0", " ", "0", "1", " ", "1">>
    /\ keys[1].a = <<<<"U", "S">>, 23, 10>>
    /\ idents[2] = <<"r", "u", ".", "e", "c", "o", ".", "0", "0", "0", "0", "5", "-", "0", "1">>
    /\ keys[1].b = <<idents[2], 0, 0>>

\* C13 (as claimed): the key of a string that begins with a well-formed
\* identifier compares less than the key of every string that does not.
C13_MalformedAfter ==
    (keys # <<>> /\ StartsWithUspd(idents[1]) /\ ~StartsWithUspd(idents[2]))
        => keys[1].less

(***************************************************************************)
(* Part 5: the frontmatter composer, create_metadata.py                    *)
(*                                                                         *)
(* A text is the sequence of its characters, a line feed being the         *)
(* character "\n"; a character outside ASCII is written "<U+xxxx>".        *)
(***************************************************************************)

\* Number of calls of create_meta and convert_to_utf8_lf made on a directory.
MaxMetaRuns == 2

Least(S) == CHOOSE x \in S : \A y \in S : x <= y
Greatest(S) == CHOOSE x \in S : \A y \in S : y <= x

\* str.lower() and str.upper() of one character, for the characters drawn
Lower1(c) == IF c \in Upper THEN LowerSeq[IndexIn(UpperSeq, c)] ELSE c
Upper1(c) == IF c \in Elems(LowerSeq) THEN UpperSeq[IndexIn(LowerSeq, c)] ELSE c
LowerText(text) == [i \in 1..Len(text) |-> Lower1(text[i])]
UpperAll(text) == [i \in 1..Len(text) |-> Upper1(text[i])]

\* The literal pat is at place i of text, ignoring case (re.IGNORECASE).
MatchesAt(text, i, pat) ==
    /\ i + Len(pat) - 1 <= Len(text)
    /\ \A k \in 1..Len(pat) : Lower1(text[i + k - 1]) = Lower1(pat[k])
\* The literal pat is at place i of text.
IsAt(text, i, pat) ==
    /\ i + Len(pat) - 1 <= Len(text)
    /\ \A k \in 1..Len(pat) : text[i + k - 1] = pat[k]
\* pat in text
InText(pat, text) == \E i \in 1..(Len(text) + 1) : IsAt(text, i, pat)

\* \s* from place i on: the first place that holds no white space
RECURSIVE AfterSpaces(_, _)
AfterSpaces(text, i) ==
    IF i <= Len(text) /\ text[i] \in White THEN AfterSpaces(text, i + 1) ELSE i
\* (.+) from place i on: the last place before the next line feed
RECURSIVE LineEnd(_, _)
LineEnd(text, i) ==
    IF i < Len(text) /\ text[i + 1] # "\n" THEN LineEnd(text, i + 1) ELSE i

\* The group of \s*(.+) matched from place i on, None when it cannot match:
\* the white space is skipped, over line feeds too, and the rest of the line
\* reached is taken; when only white space follows, \s* gives back up to
\* the last character that is not a line feed.
CaptureRest(text, i) ==
    LET j == AfterSpaces(text, i)
        back == {k \in i..Len(text) : text[k] # "\n"}
    IN  IF j <= Len(text) THEN Some(SubSeq(text, j, LineEnd(text, j)))
        ELSE IF back # {}
        THEN Some(SubSeq(text, Greatest(back), LineEnd(text, Greatest(back))))
        ELSE None

\* The places ^ matches with re.MULTILINE, before a character.
LineStarts(text) == {i \in 1..Len(text) : i = 1 \/ text[i - 1] = "\n"}

\* create_metadata.py lines 9-14: what the n-th pattern requires before
\* \s*(.+)$, for n = 1, 2, 3; the 4th allows white space before the colon.
PatternPrefix(field_name, n) ==
    CASE n = 1 -> <<"*", "*">> \o field_name \o <<":", "*", "*">>
      [] n = 2 -> <<"*", "*">> \o field_name \o <<"*", "*", ":">>
      [] n = 3 -> field_name \o <<":">>
      [] n = 4 -> field_name

\* The place where \s*(.+)$ starts when the n-th pattern matches its
\* prefix at place s, 0 when it does not.
PatternRest(content, s, field_name, n) ==
    IF ~MatchesAt(content, s, PatternPrefix(field_name, n)) THEN 0
    ELSE IF n < 4 THEN s + Len(PatternPrefix(field_name, n))
    ELSE LET j == AfterSpaces(content, s + Len(field_name)) IN
         IF j <= Len(content) /\ content[j] = ":" THEN j + 1 ELSE 0

\* re.search(pattern n, content, re.MULTILINE | re.IGNORECASE): group 1 of
\* the leftmost match, None without a match; starts are the places where ^
\* matches
PatternSearch(content, starts, field_name, n) ==
    LET hits == {s \in starts :
                    LET rest == PatternRest(content, s, field_name, n)
                    IN  rest # 0 /\ CaptureRest(content, rest) # None}
    IN  IF hits = {} THEN None
        ELSE CaptureRest(content, PatternRest(content, Least(hits), field_name, n))

\* create_metadata.py lines 16-20 over the line starts of the content: the
\* stripped group of the first pattern that matches, None when none does.
\* Every pattern starts with '*' or with the first character of the field
\* name, so only the lines that start so are tried.
FirstMatch(content, lines, field_name) ==
    LET starts == {s \in lines :
                     Lower1(content[s]) \in {"*", Lower1(field_name[1])}}
        found == [n \in 1..4 |-> PatternSearch(content, starts, field_name, n)]
        matching == {n \in 1..4 : found[n] # None}
    IN  IF matching = {} THEN None
        ELSE Some(Strip(found[Least(matching)][1]))

\* create_metadata.py lines 7-20
extract_metadata_field(content, field_name) ==
    FirstMatch(content, LineStarts(content), field_name)

TitleWord == <<"t", "i", "t", "l", "e">>
\* The place after the colon when title\s*: matches at place p, 0 otherwise.
TitleRest(content, p) ==
    IF ~MatchesAt(content, p, TitleWord) THEN 0
    ELSE LET j == AfterSpaces(content, p + Len(TitleWord)) IN
         IF j <= Len(content) /\ content[j] = ":" THEN j + 1 ELSE 0

\* create_metadata.py lines 22-29 (a match starts with 't' or 'T')
extract_document_title(content) ==
    LET hits == {p \in 1..Len(content) :
                    /\ content[p] \in {"t", "T"}
                    /\ LET rest == TitleRest(content, p)
                       IN  rest # 0 /\ CaptureRest(content, rest) # None}
    IN  IF hits = {} THEN None
        ELSE Some(Strip(CaptureRest(content, TitleRest(content, Least(hits)))[1]))

GuideWords == {<<"g", "u", "i", "d", "e">>, <<"t", "u", "t", "o", "r", "i", "a", "l">>, <<"h", "o", "w", "-", "t", "o">>}
PaperWords == {<<"p", "a", "p", "e", "r">>, <<"r", "e", "s", "e", "a", "r", "c", "h">>, <<"s", "t", "u", "d", "y">>}
TutorialWords == {<<"t", "u", "t", "o", "r", "i", "a", "l">>, <<"w", "a", "l", "k", "t", "h", "r", "o", "u", "g", "h">>}
Guide == <<"G", "u", "i", "d", "e">>
Paper == <<"P", "a", "p", "e", "r">>
Tutorial == <<"T", "u", "t", "o", "r", "i", "a", "l">>
Specification == <<"S", "p", "e", "c", "i", "f", "i", "c", "a", "t", "i", "o", "n">>

\* The word lists are tried in the order Tutorial, Guide, Paper.
determine_document_type_tutorial_first(title) ==
    IF \E w \in TutorialWords : InText(w, LowerText(title)) THEN Tutorial
    ELSE IF \E w \in GuideWords : InText(w, LowerText(title)) THEN Guide
    ELSE IF \E w \in PaperWords : InText(w, LowerText(title)) THEN Paper
    ELSE Specification

\* create_metadata.py lines 31-41
determine_document_type(title) ==
    IF \E w \in GuideWords : InText(w, LowerText(title)) THEN Guide
    ELSE IF \E w \in PaperWords : InText(w, LowerText(title)) THEN Paper
    ELSE IF \E w \in TutorialWords : InText(w, LowerText(title)) THEN Tutorial
    ELSE Specification

\* A file that holds the bytes of an ASCII text.
Bytes(data) == [k |-> "bytes", data |-> data]

\* open(path, 'r').read(): universal newlines, '\r\n' and '\r' read as '\n'
ReadText(data) ==
    LET kept == SelectSeq([i \in 1..Len(data) |-> i],
                          LAMBDA i : ~(data[i] = "\n" /\ i > 1 /\ data[i - 1] = "\r"))
    IN  <<>> \o [k \in 1..Len(kept) |-> IF data[kept[k]] = "\r" THEN "\n" ELSE data[kept[k]]]

\* The places of c in text.
PlacesOf(c, text) == {i \in 1..Len(text) : text[i] = c}
\* os.path.basename
basename(path) ==
    IF PlacesOf("/", path) = {} THEN path
    ELSE SubSeq(path, Greatest(PlacesOf("/", path)) + 1, Len(path))
\* str.rstrip(c) and str.strip(c) for one character c
RECURSIVE RStripChar(_, _)
RStripChar(text, c) ==
    IF text # <<>> /\ text[Len(text)] = c
    THEN RStripChar(SubSeq(text, 1, Len(text) - 1), c) ELSE text
RECURSIVE LStripChar(_, _)
LStripChar(text, c) ==
    IF text # <<>> /\ text[1] = c THEN LStripChar(Tail(text), c) ELSE text
StripChar(text, c) == RStripChar(LStripChar(text, c), c)
\* os.path.dirname
dirname(path) ==
    IF PlacesOf("/", path) = {} THEN <<>>
    ELSE LET head == SubSeq(path, 1, Greatest(PlacesOf("/", path))) IN
         IF RStripChar(head, "/") = <<>> THEN head ELSE RStripChar(head, "/")
\* os.path.join of a directory and a file name
join(dir, name) ==
    IF name # <<>> /\ name[1] = "/" THEN name
    ELSE IF dir = <<>> \/ dir[Len(dir)] = "/" THEN dir \o name
    ELSE dir \o <<"/">> \o name
\* os.path.splitext(name)[0]: the name without its last extension; leading
\* dots start no extension
name_without_ext(name) ==
    LET dots == {i \in PlacesOf(".", name) : \E q \in 1..(i - 1) : name[q] # "."}
    IN  IF dots = {} THEN name ELSE SubSeq(name, 1, Greatest(dots) - 1)

\* str.replace(old, new) for one character old
Replace1(text, old, new) == [i \in 1..Len(text) |-> IF text[i] = old THEN new ELSE text[i]]
\* re.sub(r'\s+', ' ', text)
RECURSIVE Collapse(_)
Collapse(text) ==
    IF text = <<>> THEN <<>>
    ELSE IF text[1] \in White
    THEN <<" ">> \o Collapse(SubSeq(text, AfterSpaces(text, 1), Len(text)))
    ELSE <<text[1]>> \o Collapse(Tail(text))

\* create_metadata.py lines 55-60
TitleOf(content, file_path) ==
    LET title == extract_document_title(content) IN
    IF Given(title) THEN title[1]
    ELSE Strip(Collapse(Replace1(Replace1(name_without_ext(basename(file_path)),
                                          "_", " "), ".", " ")))

\* a or b of two optional strings
Or(a, b) == IF Given(a) THEN a ELSE b

EcoDot == <<"E", "c", "o", ".">>
\* create_metadata.py lines 86-95: the source path rebuilt from the file name
LegacyPath(name) ==
    LET starts == {p \in 1..Len(name) :
                    /\ IsAt(name, p, EcoDot)
                    /\ p + Len(EcoDot) <= Len(name)
                    /\ name[p + Len(EcoDot)] # "_"}
        from == Least(starts)
        stops == {q \in PlacesOf("_", name) : q > from}
        to == IF stops = {} THEN Len(name) ELSE Least(stops) - 1
    IN  IF starts # {}
        THEN <<"c", "o", "m", "p", "o", "n", "e", "n", "t", "s", "/">> \o SubSeq(name, from, to) \o <<"/">> \o name \o <<".", "f", "o", "d", "t">>
        ELSE <<"c", "o", "m", "p", "o", "n", "e", "n", "t", "s", "/">> \o name \o <<".", "f", "o", "d", "t">>

\* create_metadata.py lines 82-96
SourceUrl(file_path, github_server_url, repository_name, commit_sha, original_source_path) ==
    github_server_url \o <<"/">> \o repository_name \o <<"/", "b", "l", "o", "b", "/">> \o commit_sha \o <<"/">>
        \o (IF Given(original_source_path) THEN original_source_path[1]
             ELSE LegacyPath(name_without_ext(basename(file_path))))

Delimiter == <<"-", "-", "-">>
OpenDelimiter == <<"-", "-", "-", "\n">>
CloseDelimiter == <<"\n", "-", "-", "-", "\n">>

\* The previous header is never removed.
KeepHeader(content) == content

\* create_metadata.py lines 98-106: the content without a previous header
ExistingContent(content) ==
    LET ends == {i \in 1..Len(content) :
                    content[i] = "\n" /\ IsAt(content, i, CloseDelimiter)} IN
    IF IsAt(content, 1, OpenDelimiter) /\ ends # {}
    THEN SubSeq(content, Least(ends) + Len(CloseDelimiter), Len(content))
    ELSE content

\* create_metadata.py lines 63-73: the metadata fields extracted from the
\* content (modified_date, line 72, is extracted and not used)
Fields(content) ==
    LET lines == LineStarts(content) IN
    [uspd |-> Or(FirstMatch(content, lines, <<"U", "S", "P", "D">>),
                 FirstMatch(content, lines, <<"<U+0415>", "<U+0421>", "<U+041F>", "<U+0414>">>)),
     component_name |-> FirstMatch(content, lines, <<"N", "a", "m", "e">>),
     short_description |-> FirstMatch(content, lines,
        <<"S", "h", "o", "r", "t", " ", "D", "e", "s", "c", "r", "i", "p", "t", "i", "o", "n", " ", "(", "m", "a", "x", " ", "3", "0", "0", " ", "c", "h", "a", "r", ".", ")">>),
     use_category |-> FirstMatch(content, lines, <<"C", "a", "t", "e", "g", "o", "r", "y">>),
     component_type |-> FirstMatch(content, lines, <<"T", "y", "p", "e">>),
     cid |-> FirstMatch(content, lines, <<"C", "I", "D">>),
     marketplace_id |-> FirstMatch(content, lines, <<"M", "a", "r", "k", "e", "t", "p", "l", "a", "c", "e", " ", "I", "D">>),
     marketplace_url |-> FirstMatch(content, lines, <<"M", "a", "r", "k", "e", "t", "p", "l", "a", "c", "e", " ", "U", "R", "L">>),
     version |-> FirstMatch(content, lines, <<"V", "e", "r", "s", "i", "o", "n">>),
     tags |-> FirstMatch(content, lines, <<"t", "a", "g", "s">>)]

\* f'key: "value"'
Quoted(key, value) == key \o <<":", " ", "\"">> \o value \o <<"\"">>
\* The line is appended whatever the value, '' for None.
Always(key, opt) == <<Quoted(key, IF opt = None THEN <<>> ELSE opt[1])>>
\* if value: frontmatter_lines.append(f'key: "{value}"')
IfGiven(key, opt) == IF Given(opt) THEN <<Quoted(key, opt[1])>> ELSE <<>>
\* The same with value.upper()
UpperOpt(opt) == IF opt = None THEN None ELSE Some(UpperAll(opt[1]))

\* create_metadata.py lines 109-155
FrontmatterLines(title, document_type, m, last_modified, source_url) ==
    <<Delimiter, Quoted(<<"t", "i", "t", "l", "e">>, title), <<"l", "a", "y", "o", "u", "t", ":", " ", "d", "o", "c">>, Quoted(<<"d", "o", "c", "u", "m", "e", "n", "t", "T", "y", "p", "e">>, document_type)>>
    \o IfGiven(<<"d", "o", "c", "u", "m", "e", "n", "t", "U", "s", "p", "d">>, m.uspd)
    \o IfGiven(<<"t", "a", "g", "s">>, m.tags)
    \o IfGiven(<<"v", "e", "r", "s", "i", "o", "n">>, m.version)
    \o <<Quoted(<<"l", "a", "s", "t", "M", "o", "d", "i", "f", "i", "e", "d">>, last_modified)>>
    \o IfGiven(<<"c", "o", "m", "p", "o", "n", "e", "n", "t", "N", "a", "m", "e">>, m.component_name)
    \o IfGiven(<<"C", "I", "D">>, m.cid)
    \o IfGiven(<<"d", "e", "s", "c", "r", "i", "p", "t", "i", "o", "n">>, m.short_description)
    \o IfGiven(<<"u", "s", "e", "C", "a", "t", "e", "g", "o", "r", "y">>, UpperOpt(m.use_category))
    \o IfGiven(<<"t", "y", "p", "e">>, UpperOpt(m.component_type))
    \o IfGiven(<<"r", "e", "g", "i", "s", "t", "r", "y", "I", "d">>, UpperOpt(m.marketplace_id))
    \o IfGiven(<<"r", "e", "g", "i", "s", "t", "r", "y", "U", "r", "l">>, m.marketplace_url)
    \o <<Quoted(<<"s", "o", "u", "r", "c", "e">>, source_url),
         <<"l", "a", "s", "t", "U", "p", "d", "a", "t", "e", "d", ":", " ", "t", "r", "u", "e">>,
         <<"e", "d", "i", "t", "L", "i", "n", "k", ":", " ", "t", "r", "u", "e">>,
         <<"s", "i", "d", "e", "b", "a", "r", ":", " ", "t", "r", "u", "e">>,
         Delimiter, <<>> >>

\* '\n'.join(lines)
RECURSIVE JoinLines(_)
JoinLines(lines) ==
    IF lines = <<>> THEN <<>>
    ELSE IF Len(lines) = 1 THEN lines[1]
    ELSE lines[1] \o <<"\n">> \o JoinLines(Tail(lines))

Components == <<"c", "o", "m", "p", "o", "n", "e", "n", "t", "s">>
MdSuffix == <<".", "m", "d">>
\* create_metadata.py lines 163-168
NewFilePath(file_path, cid, source_dir_type) ==
    IF Given(cid) /\ source_dir_type = Components
    THEN join(dirname(file_path), StripChar(StripChar(cid[1], "\""), "'") \o MdSuffix)
    ELSE file_path

GithubServerUrl == <<"h", "t", "t", "p", "s", ":", "/", "/", "g">>
RepositoryName == <<"o", "/", "r">>
CommitSha == <<"c", "1">>
\* datetime.now().strftime('%Y-%m-%d')
Today == <<"2", "0", "2", "6", "-", "1", "0", "-", "2", "8">>
\* The values of original_source_path: None or a path.
SourcePaths == {None, Some(<<"c", "o", "m", "p", "o", "n", "e", "n", "t", "s", "/", "E", "c", "o", ".", "A", "/", "a", ".", "f", "o", "d", "t">>)}
\* The values of source_dir_type.
DirTypes == {Components, <<"g", "u", "i", "d", "e", "s">>}

\* open(..., 'w').write(content) and os.remove(path) on the directory
WriteBytes(files, path, data) ==
    [p \in DOMAIN files \cup {path} |-> IF p = path THEN Bytes(data) ELSE files[p]]
\* The original file is kept.
KeepOriginal(files, path) == files
Remove(files, path) == [p \in DOMAIN files \ {path} |-> files[p]]

\* The call raised before anything was written.
MetaRaised(file_path, original_source_path, source_dir_type) ==
    [file_path |-> file_path, source_dir_type |-> source_dir_type,
     original_source_path |-> original_source_path, outcome |-> "raised"]

\* One call of create_meta (create_metadata.py lines 43-178).
CreateMeta(file_path, original_source_path, source_dir_type) ==
    /\ mruns < MaxMetaRuns
    /\ mruns' = mruns + 1
    /\ IF file_path \notin DOMAIN mfiles \/ mfiles[file_path] = Garbage
       THEN /\ meta' = <<MetaRaised(file_path, original_source_path, source_dir_type)>>
            /\ UNCHANGED mfiles
       ELSE LET content == ReadText(mfiles[file_path].data)
                title == TitleOf(content, file_path)
                m == Fields(content)
                document_type == determine_document_type(title)
                source_url == SourceUrl(file_path, GithubServerUrl, RepositoryName,
                                        CommitSha, original_source_path)
                existing_content == ExistingContent(content)
                frontmatter == JoinLines(FrontmatterLines(title, document_type, m,
                                                          Today, source_url))
                final_content == frontmatter \o existing_content
                new_file_path == NewFilePath(file_path, m.cid, source_dir_type)
                written == WriteBytes(mfiles, new_file_path, final_content)
            IN  /\ mfiles' = IF new_file_path # file_path /\ file_path \in DOMAIN written
                             THEN Remove(written, file_path) ELSE written
                /\ meta' = <<[file_path |-> file_path,
                              source_dir_type |-> source_dir_type,
                              original_source_path |-> original_source_path,
                              outcome |-> "returned",
                              returned |-> new_file_path,
                              before |-> mfiles,
                              content |-> content,
                              title |-> title,
                              document_type |-> document_type,
                              fields |-> m,
                              frontmatter |-> frontmatter]>>
    /\ UNCHANGED outsideMeta

\* The bytes of the undecodable file drawn, FF FE 20 62 61 64 20 C3 28, read
\* as windows-1251, the first of the encodings of convert_encoding.py line 9
\* that decodes them.
Windows1251Text ==
    <<"<U+044F>", "<U+044E>", " ", "b", "a", "d", " ", "<U+0413>", "(">>

\* convert_encoding.py lines 9-20: the text read and the encoding it was
\* read in.  A file of the model decodes as UTF-8 or, where it does not, as
\* windows-1251; the read is in text mode, with universal newlines.
DecodeFile(file) ==
    IF file = Garbage
    THEN [content |-> Windows1251Text, used_encoding |-> "windows-1251"]
    ELSE [content |-> ReadText(file.data), used_encoding |-> "utf-8"]

\* convert_encoding.py line 30: replace('\r\n', '\n'), then
\* replace('\r', '\n').  A line feed that follows a carriage return goes
\* with the first replacement, every carriage return becomes a line feed
\* with the first or the second.
NormalizeLineEndings(content) ==
    LET kept == SelectSeq([i \in 1..Len(content) |-> i],
                          LAMBDA i : ~(content[i] = "\n" /\ i > 1
                                        /\ content[i - 1] = "\r"))
    IN  <<>> \o [k \in 1..Len(kept) |->
                    IF content[kept[k]] = "\r" THEN "\n" ELSE content[kept[k]]]

\* The output path of a conversion that is not made in place.
ConvertedPath == <<"d", "o", "c", "s", "/", "o", "u", "t", ".", "m", "d">>

\* One call of convert_to_utf8_lf (convert_encoding.py lines 5-36): the file
\* is read in the first encoding that decodes it, its line endings are made
\* LF, and the text is written as UTF-8 to output_path.  A missing input
\* raises before anything is written.
ConvertToUtf8Lf(input_path, output_path) ==
    /\ mruns < MaxMetaRuns
    /\ mruns' = mruns + 1
    /\ IF input_path \notin DOMAIN mfiles
       THEN /\ meta' = <<[file_path |-> input_path, output_path |-> output_path,
                          outcome |-> "conversion raised"]>>
            /\ UNCHANGED mfiles
       ELSE LET read == DecodeFile(mfiles[input_path])
                content == NormalizeLineEndings(read.content)
            IN  /\ mfiles' = WriteBytes(mfiles, output_path, content)
                /\ meta' = <<[file_path |-> input_path,
                              output_path |-> output_path,
                              outcome |-> "converted",
                              returned |-> read.used_encoding,
                              before |-> mfiles]>>
    /\ UNCHANGED outsideMeta

\* The files drawn: a path and the bytes of the file.
MetaFile(path, data) == [path |-> path, file |-> Bytes(data)]
\* No field and no title in the text.
Plain ==
    MetaFile(<<"d", "o", "c", "s", "/", "a", "_", "b", ".", "m", "d">>,
        <<"h", "e", "l", "l", "o">>)
\* A title, a CID and a name, LF line ends.
WithCid ==
    MetaFile(<<"d", "o", "c", "s", "/", "a", "_", "b", ".", "m", "d">>,
        <<"T", "i", "t", "l", "e", ":", " ", "M", "y", " ", "G", "u", "i",
          "d", "e", "\n", "C", "I", "D", ":", " ", "a", "b", "c", "\n",
          "N", "a", "m", "e", ":", " ", "E", "c", "o", "\n">>)
\* The same kind of text with CR LF and CR line ends.
CrLf ==
    MetaFile(<<"d", "o", "c", "s", "/", "a", "_", "b", ".", "m", "d">>,
        <<"T", "i", "t", "l", "e", ":", " ", "T", "\r", "\n", "C", "I",
          "D", ":", " ", "a", "b", "c", "\r", "\n", "l", "i", "n", "e",
          "\r", "m", "o", "r", "e", "\r", "\n">>)
\* A header written by another tool, then the body.
Framed ==
    MetaFile(<<"d", "o", "c", "s", "/", "x", ".", "m", "d">>,
        <<"-", "-", "-", "\n", "f", "o", "o", ":", " ", "1", "\n", "-",
          "-", "-", "\n", "b", "o", "d", "y", "\n">>)
\* A header, then a body with CR LF line ends.
FramedCrLf ==
    MetaFile(<<"d", "o", "c", "s", "/", "x", ".", "m", "d">>,
        <<"-", "-", "-", "\n", "f", "o", "o", ":", " ", "1", "\n", "-",
          "-", "-", "\n", "b", "o", "d", "y", "\r", "\n", "m", "o", "r",
          "e", "\r", "\n">>)
\* A header and a body with CR LF line ends throughout.
FramedAllCrLf ==
    MetaFile(<<"d", "o", "c", "s", "/", "x", ".", "m", "d">>,
        <<"-", "-", "-", "\r", "\n", "f", "o", "o", ":", " ", "1", "\r",
          "\n", "-", "-", "-", "\r", "\n", "b", "o", "d", "y", "\r", "\n">>)
\* An opening delimiter that is never closed.
Unclosed ==
    MetaFile(<<"d", "o", "c", "s", "/", "x", ".", "m", "d">>,
        <<"-", "-", "-", "\n", "n", "o", " ", "e", "n", "d", "\n">>)
\* A closing delimiter that ends the file, with no line end after it.
ClosedAtEnd ==
    MetaFile(<<"d", "o", "c", "s", "/", "x", ".", "m", "d">>,
        <<"-", "-", "-", "\n", "f", "o", "o", ":", " ", "1", "\n", "-",
          "-", "-">>)
\* The file is already named after its CID.
NamedByCid ==
    MetaFile(<<"d", "o", "c", "s", "/", "a", "b", "c", ".", "m", "d">>,
        <<"C", "I", "D", ":", " ", "a", "b", "c", "\n", "b", "o", "d", "y",
          "\n">>)
\* Every field, in the four layouts of the patterns.
AllFields ==
    MetaFile(<<"d", "o", "c", "s", "/", "a", "l", "l", ".", "m", "d">>,
        <<"*", "*", "U", "S", "P", "D", ":", "*", "*", " ", "R", "U", ".",
          "E", "C", "O", ".", "0", "0", "0", "0", "5", "-", "0", "1", "\n",
          "*", "*", "N", "a", "m", "e", "*", "*", ":", " ", "E", "c", "o",
          ".", "A", "\n", "S", "h", "o", "r", "t", " ", "D", "e", "s", "c",
          "r", "i", "p", "t", "i", "o", "n", " ", "(", "m", "a", "x", " ",
          "3", "0", "0", " ", "c", "h", "a", "r", ".", ")", ":", " ", "d",
          "\n", "C", "a", "t", "e", "g", "o", "r", "y", " ", ":", " ", "l",
          "i", "b", "\n", "T", "y", "p", "e", ":", " ", "c", "\n", "C",
          "I", "D", ":", " ", "'", "A", "B", "'", "\n", "M", "a", "r", "k",
          "e", "t", "p", "l", "a", "c", "e", " ", "I", "D", ":", " ", "m",
          "1", "\n", "M", "a", "r", "k", "e", "t", "p", "l", "a", "c", "e",
          " ", "U", "R", "L", ":", " ", "u", "\n", "V", "e", "r", "s", "i",
          "o", "n", ":", " ", "1", "\n", "t", "a", "g", "s", ":", " ", "t",
          "\n">>)
\* A value on a later line and a value of white space only.
NextLine ==
    MetaFile(<<"d", "o", "c", "s", "/", "x", ".", "m", "d">>,
        <<"N", "a", "m", "e", ":", "\n", "\n", " ", " ", "n", "e", "x",
          "t", "\n", "V", "e", "r", "s", "i", "o", "n", ":", " ", " ", " ",
          "\n">>)
\* A file name that carries a component name.
EcoNamed ==
    MetaFile(<<"d", "o", "c", "s", "/", "E", "c", "o", ".", "C", "o", "r", "e", "1", "_", "s", "p", "e", "c", ".", "m", "d">>,
        <<"h", "e", "l", "l", "o">>)
\* The identifier under its Cyrillic label.
Cyrillic ==
    MetaFile(<<"d", "o", "c", "s", "/", "x", ".", "m", "d">>,
        <<"<U+0415>", "<U+0421>", "<U+041F>", "<U+0414>", ":", " ", "R",
          "U", ".", "E", "C", "O", ".", "0", "0", "0", "0", "7", "-", "0",
          "1", "\n">>)
\* Titles for the document type.
TitleTutorial ==
    MetaFile(<<"d", "o", "c", "s", "/", "t", ".", "m", "d">>,
        <<"t", "i", "t", "l", "e", ":", " ", "T", "u", "t", "o", "r", "i",
          "a", "l", "\n">>)
TitlePaperGuide ==
    MetaFile(<<"d", "o", "c", "s", "/", "t", ".", "m", "d">>,
        <<"t", "i", "t", "l", "e", ":", " ", "P", "a", "p", "e", "r", " ",
          "g", "u", "i", "d", "e", "\n">>)
TitleWalkthrough ==
    MetaFile(<<"d", "o", "c", "s", "/", "t", ".", "m", "d">>,
        <<"t", "i", "t", "l", "e", ":", " ", "W", "a", "l", "k", "t", "h",
          "r", "o", "u", "g", "h", "\n">>)
TitleStudy ==
    MetaFile(<<"d", "o", "c", "s", "/", "t", ".", "m", "d">>,
        <<"t", "i", "t", "l", "e", ":", " ", "A", " ", "S", "t", "u", "d",
          "y", "\n">>)
TitleNewspaper ==
    MetaFile(<<"d", "o", "c", "s", "/", "t", ".", "m", "d">>,
        <<"t", "i", "t", "l", "e", ":", " ", "n", "e", "w", "s", "p", "a",
          "p", "e", "r", "\n">>)
TitleHowTo ==
    MetaFile(<<"d", "o", "c", "s", "/", "u", "s", "e", "r", "_", "h", "o", "w", "-", "t", "o", ".", "m", "d">>,
        <<"x">>)
TitleResearchTutorial ==
    MetaFile(<<"d", "o", "c", "s", "/", "t", ".", "m", "d">>,
        <<"t", "i", "t", "l", "e", ":", " ", "R", "e", "s", "e", "a", "r",
          "c", "h", " ", "t", "u", "t", "o", "r", "i", "a", "l", "\n">>)
\* A file that is not valid UTF-8.
Undecodable == [path |-> <<"d", "o", "c", "s", "/", "b", "a", "d", ".", "m", "d">>, file |-> Garbage]
MetaFiles ==
    {Plain, WithCid, CrLf, Framed, FramedAllCrLf,
     FramedCrLf, Unclosed, ClosedAtEnd, NamedByCid, AllFields,
     NextLine, EcoNamed, Cyrillic, TitleTutorial,
     TitlePaperGuide, TitleWalkthrough, TitleStudy, TitleNewspaper,
     TitleHowTo, TitleResearchTutorial,
     Undecodable}
\* A path that names no file.
NoSuchFile == <<"d", "o", "c", "s", "/", "n", "o", "n", "e", ".", "m", "d">>

\* The directories drawn: every file alone, and two pairs of files, one of
\* them two artifacts of one component, which carry the same CID.
MetaDirs ==
    {{f} : f \in MetaFiles}
        \cup {{WithCid, NamedByCid}, {WithCid, Framed}}
\* The file of directory d at path p.
FileAt(d, p) == (CHOOSE f \in d : f.path = p).file

InitMeta ==
    /\ mfiles \in {[p \in {f.path : f \in d} |-> FileAt(d, p)] : d \in MetaDirs}
    /\ meta = <<>>
    /\ mruns = 0
    /\ TrackerIdle
    /\ RegistryIdle
    /\ KeysIdle
    /\ ConvIdle

NextMeta ==
    \/ \E file_path \in DOMAIN mfiles \cup {NoSuchFile}, osp \in SourcePaths,
          source_dir_type \in DirTypes :
           CreateMeta(file_path, osp, source_dir_type)
    \/ \E input_path \in DOMAIN mfiles \cup {NoSuchFile} :
          \E output_path \in {input_path, ConvertedPath} :
             ConvertToUtf8Lf(input_path, output_path)

SpecMeta == InitMeta /\ [][NextMeta]_vars

(***************************************************************************)
(* Properties of the frontmatter composer                                  *)
(***************************************************************************)

\* The last call of create_meta returned.
Returned == meta # <<>> /\ meta[1].outcome = "returned"
\* The bytes of the file the call was given, before the call, and the bytes
\* of the file it returned, after the call.
GivenBytes == meta[1].before[meta[1].file_path].data
ReturnedBytes == mfiles[meta[1].returned].data

\* The text starts with a '---' line and holds a later '---' line.
HasHeader(text) ==
    /\ IsAt(text, 1, OpenDelimiter)
    /\ \E i \in 1..Len(text) : text[i] = "\n" /\ IsAt(text, i, CloseDelimiter)
\* The text after the header; the whole text when there is no header.
BodyOf(text) ==
    IF HasHeader(text)
    THEN SubSeq(text,
                Least({i \in 1..Len(text) :
                          text[i] = "\n" /\ IsAt(text, i, CloseDelimiter)})
                    + Len(CloseDelimiter),
                Len(text))
    ELSE text

\* C15 (as claimed): the file returned is the new header followed by the
\* body of the file given, byte for byte: the text after the previous
\* header when the file had one, the whole text when it had none.
C15_BodyVerbatim ==
    Returned =>
        /\ ReturnedBytes = meta[1].frontmatter \o BodyOf(GivenBytes)
        /\ BodyOf(ReturnedBytes) = BodyOf(GivenBytes)

\* C15 (amended): the file returned is the new header followed by the body
\* of the file given as read with every CR LF and CR line end turned into
\* LF: the text after the previous header when the text read had one, the
\* whole text read when it had none; the body is the same byte for byte
\* when the file given holds no CR.
C15_BodyUpToLineEnds ==
    Returned =>
        /\ HasHeader(ReturnedBytes)
        /\ ReturnedBytes = meta[1].frontmatter \o BodyOf(ReadText(GivenBytes))
        /\ BodyOf(ReturnedBytes) = BodyOf(ReadText(GivenBytes))
        /\ PlacesOf("\r", GivenBytes) = {} => BodyOf(ReturnedBytes) = BodyOf(GivenBytes)

\* C15 witness: a second call on the file the first call wrote has replaced
\* the first call's header and kept the body, which is not empty.
C15_Witness ==
    /\ Returned
    /\ mruns = 2
    /\ HasHeader(GivenBytes)
    /\ BodyOf(GivenBytes) # <<>>
    /\ ReturnedBytes = meta[1].frontmatter \o BodyOf(GivenBytes)
    /\ ReturnedBytes # GivenBytes

\* The header written holds a line of the key.
HeaderHas(key) ==
    \E i \in LineStarts(meta[1].frontmatter) :
        IsAt(meta[1].frontmatter, i, key \o <<":", " ">>)
AlwaysKeys ==
    {<<"t", "i", "t", "l", "e">>,
     <<"l", "a", "y", "o", "u", "t">>,
     <<"d", "o", "c", "u", "m", "e", "n", "t", "T", "y", "p", "e">>,
     <<"l", "a", "s", "t", "M", "o", "d", "i", "f", "i", "e", "d">>,
     <<"s", "o", "u", "r", "c", "e">>,
     <<"l", "a", "s", "t", "U", "p", "d", "a", "t", "e", "d">>,
     <<"e", "d", "i", "t", "L", "i", "n", "k">>,
     <<"s", "i", "d", "e", "b", "a", "r">>}
\* The key written for each extracted field.
KeyOfField ==
    [uspd |-> <<"d", "o", "c", "u", "m", "e", "n", "t", "U", "s", "p", "d">>,
     tags |-> <<"t", "a", "g", "s">>,
     version |-> <<"v", "e", "r", "s", "i", "o", "n">>,
     component_name |-> <<"c", "o", "m", "p", "o", "n", "e", "n", "t", "N", "a", "m", "e">>,
     cid |-> <<"C", "I", "D">>,
     short_description |-> <<"d", "e", "s", "c", "r", "i", "p", "t", "i", "o", "n">>,
     use_category |-> <<"u", "s", "e", "C", "a", "t", "e", "g", "o", "r", "y">>,
     component_type |-> <<"t", "y", "p", "e">>,
     marketplace_id |-> <<"r", "e", "g", "i", "s", "t", "r", "y", "I", "d">>,
     marketplace_url |-> <<"r", "e", "g", "i", "s", "t", "r", "y", "U", "r", "l">>]

\* C16: the header written holds the eight fixed keys, and holds the key of
\* each of the ten extracted fields exactly when that field was extracted
\* with a value that is not empty.
C16_OmitIfAbsent ==
    Returned =>
        /\ IsAt(ReturnedBytes, 1, meta[1].frontmatter)
        /\ \A key \in AlwaysKeys : HeaderHas(key)
        /\ \A field \in DOMAIN KeyOfField :
                HeaderHas(KeyOfField[field])
                    <=> (meta[1].fields[field] # None /\ meta[1].fields[field][1] # <<>>)

\* C16 witness: a call has written all ten optional keys.
C16_Witness ==
    /\ Returned
    /\ \A field \in DOMAIN KeyOfField : HeaderHas(KeyOfField[field])

\* A CID was extracted and the source tree type is 'components'.
RenameCase ==
    /\ meta[1].fields.cid # None
    /\ meta[1].fields.cid[1] # <<>>
    /\ meta[1].source_dir_type = Components
\* <CID>.md in the directory of the file given, the CID without the quote
\* characters around it.
CidPath ==
    dirname(meta[1].file_path) \o <<"/">>
        \o StripChar(StripChar(meta[1].fields.cid[1], "\""), "'")
        \o MdSuffix
\* The framed document is in the file returned and every other file of the
\* directory is as it was.
WrittenTo(path) ==
    /\ meta[1].returned = path
    /\ path \in DOMAIN mfiles
    /\ IsAt(mfiles[path].data, 1, meta[1].frontmatter)
    /\ \A p \in DOMAIN mfiles \ {path} :
            p \in DOMAIN meta[1].before /\ mfiles[p] = meta[1].before[p]

\* C17 (as claimed): with a CID and the type 'components' the document is
\* written to <CID>.md, that path is returned and the file given no longer
\* exists; otherwise the file given is rewritten and no file is removed.
C17_DestructiveRename ==
    Returned =>
        IF RenameCase
        THEN WrittenTo(CidPath) /\ meta[1].file_path \notin DOMAIN mfiles
        ELSE /\ WrittenTo(meta[1].file_path)
             /\ DOMAIN mfiles = DOMAIN meta[1].before

\* C17 (amended): with a CID and the type 'components' the document is
\* written to <CID>.md and that path is returned; the file given no longer
\* exists afterwards unless it is <CID>.md itself, and then it is rewritten
\* and no file is removed; otherwise the file given is rewritten and no file
\* is removed.
C17_RenameUnlessSameName ==
    Returned =>
        IF RenameCase /\ CidPath # meta[1].file_path
        THEN /\ WrittenTo(CidPath)
             /\ meta[1].file_path \notin DOMAIN mfiles
             /\ DOMAIN mfiles = (DOMAIN meta[1].before \ {meta[1].file_path}) \cup {CidPath}
        ELSE /\ WrittenTo(meta[1].file_path)
             /\ DOMAIN mfiles = DOMAIN meta[1].before

\* C17 witness: a call has written <CID>.md and removed the file given.
C17_Witness ==
    /\ Returned
    /\ RenameCase
    /\ meta[1].returned = CidPath
    /\ meta[1].returned # meta[1].file_path
    /\ meta[1].file_path \in DOMAIN meta[1].before
    /\ meta[1].file_path \notin DOMAIN mfiles

\* The title, in lower case, holds a word of the list.
HasWordOf(words) == \E w \in words : InText(w, LowerText(meta[1].title))

\* C18 (as claimed): the document type is one of the four; a title with a
\* word of the guide list is a Guide, with a word of the paper list a Paper,
\* with a word of the tutorial list a Tutorial, and with none of these
\* words a Specification.
C18_TypeByWordList ==
    Returned =>
        /\ meta[1].document_type \in {Guide, Paper, Tutorial, Specification}
        /\ HasWordOf(GuideWords) => meta[1].document_type = Guide
        /\ HasWordOf(PaperWords) => meta[1].document_type = Paper
        /\ HasWordOf(TutorialWords) => meta[1].document_type = Tutorial
        /\ ~HasWordOf(GuideWords \cup PaperWords \cup TutorialWords)
                => meta[1].document_type = Specification

\* C18 (amended): the document type is one of the four; the lists are
\* tried in the order guide, paper, tutorial and the first list with a word
\* in the title decides: a word of the guide list gives Guide; otherwise a
\* word of the paper list gives Paper; otherwise a word of the tutorial list
\* gives Tutorial; a title with none of the words is a Specification.
C18_FirstListDecides ==
    Returned =>
        /\ meta[1].document_type \in {Guide, Paper, Tutorial, Specification}
        /\ HasWordOf(GuideWords) => meta[1].document_type = Guide
        /\ (~HasWordOf(GuideWords) /\ HasWordOf(PaperWords))
                => meta[1].document_type = Paper
        /\ (~HasWordOf(GuideWords \cup PaperWords) /\ HasWordOf(TutorialWords))
                => meta[1].document_type = Tutorial
        /\ ~HasWordOf(GuideWords \cup PaperWords \cup TutorialWords)
                => meta[1].document_type = Specification
        /\ \E i \in LineStarts(meta[1].frontmatter) :
                IsAt(meta[1].frontmatter, i,
                     <<"d", "o", "c", "u", "m", "e", "n", "t", "T", "y", "p", "e">>
                        \o <<":", " ", "\"">> \o meta[1].document_type \o <<"\"", "\n">>)

\* C18 witness: the title 'Research tutorial', which holds a word of each
\* list, was classified Guide.
C18_Witness ==
    /\ Returned
    /\ meta[1].title = <<"R", "e", "s", "e", "a", "r", "c", "h", " ", "t", "u", "t", "o", "r", "i", "a", "l">>
    /\ meta[1].document_type = Guide

(***************************************************************************)
(* Part 6  the format converters: convert_test.py, convert_test_pandoc.py  *)
(*                                                                         *)
(* A source document is named by its number in the list the directory      *)
(* search returns.  A file of the converters is File(dir, base_name,       *)
(* suffix): the directory it lies in, the document it comes from and the   *)
(* end of its name.  The external tools are the surroundings of a call:    *)
(* what the office suite did with the document and what the markup         *)
(* converter did with the intermediate file.                               *)
(***************************************************************************)
MaxSources == 2

ConvertTest == "convert_test.py"
ConvertTestPandoc == "convert_test_pandoc.py"

\* os.path.dirname(fodt_file) and output_dir
SourceDir == "source"
OutputDir == "output"

File(dir, base_name, suffix) == <<dir, base_name, suffix>>

\* glob.glob(os.path.join(directory, "*.fodt")) where n documents lie
find_fodt_files(n) == [i \in 1..n |-> i]

\* The name ending of an image the office suite writes beside the HTML of a
\* document with pictures.
ImageSuffixes == {"_html_0.png"}

\* The name endings of the intermediate files.
IntermediateSuffixes == {".html", ".odt", ".doc", ".rtf", ".docx", "_cleaned.html"}

\* soffice --convert-to: exit status 0 with the file written, exit status 0
\* with no file, or another exit status.
OfficeOutcomes == {"written", "nothing", "failed"}
\* The markup converter: pandoc's exit status 0 or not in convert_test.py;
\* the library call returning or raising in convert_test_pandoc.py.
MarkupOutcomes == {"done", "failed"}
\* The surroundings of a variant with two conversions by the office suite,
\* with one, and with none.  An outcome is drawn where the variant can come
\* to it: the second conversion is asked for where the first one failed,
\* the markup converter is not reached where the last conversion failed.
Surroundings ==
    {e \in [office : OfficeOutcomes, office2 : OfficeOutcomes,
            markup : MarkupOutcomes] :
        /\ e.office # "failed" => e.office2 = "written"
        /\ (e.office = "failed" /\ e.office2 = "failed") => e.markup = "done"}
OneConversion ==
    {e \in [office : OfficeOutcomes, markup : MarkupOutcomes] :
        e.office = "failed" => e.markup = "done"}
\* Reading the HTML the office suite wrote, in the variants that read it
\* themselves: open(..., encoding='utf-8').read() returns, or raises on
\* bytes that are not UTF-8; in variant 5 the import of bs4 and the parse
\* follow in the same try, and raise alike.
ReadOutcomes == {"read", "raises"}
\* The file is not read where the conversion failed, and the markup
\* converter is not reached where the read raises.
ReadConversion ==
    {e \in [office : OfficeOutcomes, read : ReadOutcomes,
            markup : MarkupOutcomes] :
        /\ e.office = "failed" => e.read = "read"
        /\ (e.office = "failed" \/ e.read = "raises") => e.markup = "done"}
NoConversion == [markup : MarkupOutcomes]

\* subprocess.run(["soffice", ..., "--convert-to", ...]) on the directory
Soffice(d, file, outcome) == IF outcome = "written" THEN d \cup {file} ELSE d
\* The files the office suite wrote in this call.
Made(file, outcome) == IF outcome = "written" THEN {file} ELSE {}

\* os.makedirs(output_dir, exist_ok=True) raises where output_dir names a
\* regular file.
MakedirsRaises(c) == c.output_dir = "file"

\* What a tool is to its version probe: installed; missing, that is not on
\* PATH or ending the probe with a non-zero status; or a file on PATH that
\* cannot be executed.
ToolStates == {"installed", "missing", "unusable"}

\* check_executable: True where the probe ran, False where subprocess.run
\* raised SubprocessError or FileNotFoundError.  Another OSError, the
\* PermissionError of a file without the execute permission, is not caught.
check_executable(c, executable) ==
    IF c[executable] = "installed" THEN "True"
    ELSE IF c[executable] = "missing" THEN "False"
    ELSE "PermissionError"

\* The calls a variant makes outside itself, in the order it makes them.
Makedirs == <<"makedirs">>
\* The office suite was asked for this file and ended with this exit status.
Office(file, outcome) == <<"soffice", file, IF outcome = "failed" THEN 1 ELSE 0>>
Copy2(file) == <<"copy2", file>>
Markup(tool, file, format) == <<tool, file, format>>

\* What a variant call returned or raised, the directory after it, the
\* intermediate files it wrote and the calls it made.
Done(returned, d, made, ran) ==
    [returned |-> returned, disk |-> d, made |-> made, ran |-> ran]

\* convert_test.py, variant 1: document -> HTML -> Markdown
convert_fodt_to_html_variant(c, fodt_file, d, e) ==
    LET html_file == File(OutputDir, fodt_file, ".html")
        md_file == File(OutputDir, fodt_file, "_1.md")
        d1 == Soffice(d, html_file, e.office)
        made == Made(html_file, e.office)
        r1 == <<Makedirs>>
        r2 == r1 \o <<Office(html_file, e.office)>>
        r3 == r2 \o <<Markup("pandoc", html_file, "html")>>
    IN  IF check_executable(c, "soffice") # "True"
             THEN Done(check_executable(c, "soffice"), d, {}, <<>>)
        ELSE IF check_executable(c, "pandoc") # "True"
             THEN Done(check_executable(c, "pandoc"), d, {}, <<>>)
        ELSE IF MakedirsRaises(c) THEN Done("False", d, {}, r1)
        ELSE IF e.office = "failed" THEN Done("False", d, {}, r2)
        ELSE IF html_file \notin d1 THEN Done("False", d1, made, r2)
        ELSE IF e.markup = "failed" THEN Done("False", d1, made, r3)
        ELSE Done("True", (d1 \cup {md_file}) \ {html_file}, made, r3)

\* convert_test.py, variant 2: document -> ODT -> Markdown.  The handler
\* names base_name, which is unbound where os.makedirs raised.
convert_fodt_to_odt_variant(c, fodt_file, d, e) ==
    LET odt_file == File(SourceDir, fodt_file, ".odt")
        md_file == File(OutputDir, fodt_file, "_2.md")
        d1 == Soffice(d, odt_file, e.office)
        made == Made(odt_file, e.office)
        r1 == <<Makedirs>>
        r2 == r1 \o <<Office(odt_file, e.office)>>
        r3 == r2 \o <<Markup("pandoc", odt_file, "odt")>>
    IN  IF check_executable(c, "soffice") # "True"
             THEN Done(check_executable(c, "soffice"), d, {}, <<>>)
        ELSE IF check_executable(c, "pandoc") # "True"
             THEN Done(check_executable(c, "pandoc"), d, {}, <<>>)
        ELSE IF MakedirsRaises(c) THEN Done("UnboundLocalError", d, {}, r1)
        ELSE IF e.office = "failed" THEN Done("False", d, {}, r2)
        ELSE IF odt_file \notin d1 THEN Done("False", d1, made, r2)
        ELSE IF e.markup = "failed" THEN Done("False", d1 \ {odt_file}, made, r3)
        ELSE Done("True", (d1 \cup {md_file}) \ {odt_file}, made, r3)

\* convert_test.py, variant 3: a copy of the document named .odt -> Markdown
convert_fodt_zip_variant(c, fodt_file, d, e) ==
    LET odt_file == File(OutputDir, fodt_file, ".odt")
        md_file == File(OutputDir, fodt_file, "_3.md")
        d1 == d \cup {odt_file}
        r1 == <<Makedirs>>
        r3 == r1 \o <<Copy2(odt_file), Markup("pandoc", odt_file, "odt")>>
    IN  IF check_executable(c, "pandoc") # "True"
             THEN Done(check_executable(c, "pandoc"), d, {}, <<>>)
        ELSE IF MakedirsRaises(c) THEN Done("False", d, {}, r1)
        ELSE IF e.markup = "failed"
             THEN Done("False", d1 \ {odt_file}, {odt_file}, r3)
        ELSE Done("True", (d1 \cup {md_file}) \ {odt_file}, {odt_file}, r3)

\* input_format = "doc" if doc_file.endswith(".doc") else "rtf"
input_format_doc(doc_file) == "doc"
input_format(doc_file) == IF doc_file[3] = ".doc" THEN "doc" ELSE "rtf"

\* convert_test.py, variant 4: document -> DOC, or RTF where that fails,
\* -> Markdown.  The handler names base_name as that of variant 2 does.
convert_fodt_to_doc_variant(c, fodt_file, d, e) ==
    LET first == File(SourceDir, fodt_file, ".doc")
        rtf_file == File(SourceDir, fodt_file, ".rtf")
        md_file == File(OutputDir, fodt_file, "_4.md")
        doc_file == IF e.office = "failed" THEN rtf_file ELSE first
        used == IF e.office = "failed" THEN e.office2 ELSE e.office
        d1 == Soffice(d, doc_file, used)
        made == Made(doc_file, used)
        r1 == <<Makedirs>>
        r2 == r1 \o <<Office(first, e.office)>>
                 \o (IF e.office = "failed" THEN <<Office(rtf_file, e.office2)>> ELSE <<>>)
        r3 == r2 \o <<Markup("pandoc", doc_file, input_format(doc_file))>>
    IN  IF check_executable(c, "soffice") # "True"
             THEN Done(check_executable(c, "soffice"), d, {}, <<>>)
        ELSE IF check_executable(c, "pandoc") # "True"
             THEN Done(check_executable(c, "pandoc"), d, {}, <<>>)
        ELSE IF MakedirsRaises(c) THEN Done("UnboundLocalError", d, {}, r1)
        ELSE IF e.office = "failed" /\ e.office2 = "failed"
             THEN Done("False", d, {}, r2)
        ELSE IF doc_file \notin d1 THEN Done("False", d1, made, r2)
        ELSE IF e.markup = "failed" THEN Done("False", d1 \ {doc_file}, made, r3)
        ELSE Done("True", (d1 \cup {md_file}) \ {doc_file}, made, r3)

\* convert_test_pandoc.py, variant 1: document -> HTML -> Markdown.  A
\* failure of pypandoc.convert_file is an exception, and the handler returns.
convert_fodt_to_html_variant_pandoc(c, fodt_file, d, e) ==
    LET html_file == File(OutputDir, fodt_file, ".html")
        md_file == File(OutputDir, fodt_file, "_1.md")
        d1 == Soffice(d, html_file, e.office)
        made == Made(html_file, e.office)
        r1 == <<Makedirs>>
        r2 == r1 \o <<Office(html_file, e.office)>>
        r3 == r2 \o <<Markup("pypandoc", html_file, "html-raw_html")>>
    IN  IF check_executable(c, "soffice") # "True"
             THEN Done(check_executable(c, "soffice"), d, {}, <<>>)
        ELSE IF MakedirsRaises(c) THEN Done("False", d, {}, r1)
        ELSE IF e.office = "failed" THEN Done("False", d, {}, r2)
        ELSE IF html_file \notin d1 THEN Done("False", d1, made, r2)
        ELSE IF e.markup = "failed" THEN Done("False", d1, made, r3)
        ELSE Done("True", (d1 \cup {md_file}) \ {html_file}, made, r3)

\* convert_test_pandoc.py, variant 2: document -> ODT -> Markdown.  The
\* handler names odt_file, which is unbound where os.makedirs raised.
convert_fodt_to_odt_variant_pandoc(c, fodt_file, d, e) ==
    LET odt_file == File(OutputDir, fodt_file, ".odt")
        md_file == File(OutputDir, fodt_file, "_2.md")
        d1 == Soffice(d, odt_file, e.office)
        made == Made(odt_file, e.office)
        r1 == <<Makedirs>>
        r2 == r1 \o <<Office(odt_file, e.office)>>
        r3 == r2 \o <<Markup("pypandoc", odt_file, "odt")>>
    IN  IF check_executable(c, "soffice") # "True"
             THEN Done(check_executable(c, "soffice"), d, {}, <<>>)
        ELSE IF MakedirsRaises(c) THEN Done("UnboundLocalError", d, {}, r1)
        ELSE IF e.office = "failed" THEN Done("False", d, {}, r2)
        ELSE IF odt_file \notin d1 THEN Done("False", d1, made, r2)
        ELSE IF e.markup = "failed" THEN Done("False", d1 \ {odt_file}, made, r3)
        ELSE Done("True", (d1 \cup {md_file}) \ {odt_file}, made, r3)

\* convert_test_pandoc.py, variant 3: document -> RTF, or DOCX where that
\* fails, -> Markdown.  The handler removes both intermediate files and
\* names base_name, which is unbound where os.makedirs raised.
convert_fodt_fallback_variant(c, fodt_file, d, e) ==
    LET rtf_file == File(OutputDir, fodt_file, ".rtf")
        docx_file == File(OutputDir, fodt_file, ".docx")
        md_file == File(OutputDir, fodt_file, "_3.md")
        doc_file == IF e.office = "failed" THEN docx_file ELSE rtf_file
        used == IF e.office = "failed" THEN e.office2 ELSE e.office
        d1 == Soffice(d, doc_file, used)
        made == Made(doc_file, used)
        r1 == <<Makedirs>>
        r2 == r1 \o <<Office(rtf_file, e.office)>>
                 \o (IF e.office = "failed" THEN <<Office(docx_file, e.office2)>> ELSE <<>>)
        r3 == r2 \o <<Markup("pypandoc", doc_file,
                             IF doc_file = rtf_file THEN "rtf" ELSE "docx")>>
    IN  IF check_executable(c, "soffice") # "True"
             THEN Done(check_executable(c, "soffice"), d, {}, <<>>)
        ELSE IF MakedirsRaises(c) THEN Done("UnboundLocalError", d, {}, r1)
        ELSE IF e.office = "failed" /\ e.office2 = "failed"
             THEN Done("False", d, {}, r2)
        ELSE IF doc_file \notin d1 THEN Done("False", d1, made, r2)
        ELSE IF e.markup = "failed"
             THEN Done("False", d1 \ {rtf_file, docx_file}, made, r3)
        ELSE Done("True", (d1 \cup {md_file}) \ {doc_file}, made, r3)

\* convert_test_pandoc.py lines 787-790: the files of output_dir whose name
\* starts with "<base>_html_" and ends with ".png".
GeneratedImages(d, base_name) ==
    {f \in d : f[1] = OutputDir /\ f[2] = base_name /\ f[3] \in ImageSuffixes}

\* convert_test_pandoc.py, variant 4: document -> HTML -> Markdown by the
\* html-to-markdown library.  The handler removes nothing; on success the
\* HTML and the images beside it are removed.
convert_fodt_html_to_markdown_variant(c, fodt_file, d, e) ==
    LET actual_html_file == File(OutputDir, fodt_file, ".html")
        md_file == File(OutputDir, fodt_file, "_4.md")
        d1 == Soffice(d, actual_html_file, e.office)
        d2 == (d1 \cup {md_file}) \ {actual_html_file}
        made == Made(actual_html_file, e.office)
        r1 == <<Makedirs>>
        r2 == r1 \o <<Office(actual_html_file, e.office)>>
        r3 == r2 \o <<Markup("convert_to_markdown", actual_html_file, "html")>>
    IN  IF check_executable(c, "soffice") # "True"
             THEN Done(check_executable(c, "soffice"), d, {}, <<>>)
        ELSE IF MakedirsRaises(c) THEN Done("False", d, {}, r1)
        ELSE IF e.office = "failed" THEN Done("False", d, {}, r2)
        ELSE IF actual_html_file \notin d1 THEN Done("False", d1, made, r2)
        ELSE IF e.read = "raises" THEN Done("False", d1, made, r2)
        ELSE IF e.markup = "failed" THEN Done("False", d1, made, r3)
        ELSE Done("True", d2 \ GeneratedImages(d2, fodt_file), made, r3)

\* convert_test_pandoc.py, variant 5: document -> HTML -> cleaned HTML ->
\* Markdown by MarkItDown.  The handler removes the HTML file only: nothing
\* is left where the HTML could not be read or cleaned, the cleaned file
\* where MarkItDown raised.
convert_fodt_vertopal_markitdown_variant(c, fodt_file, d, e) ==
    LET actual_html_file == File(OutputDir, fodt_file, ".html")
        cleaned_html_file == File(OutputDir, fodt_file, "_cleaned.html")
        md_file == File(OutputDir, fodt_file, "_5.md")
        d1 == Soffice(d, actual_html_file, e.office)
        d2 == d1 \cup {cleaned_html_file}
        made == Made(actual_html_file, e.office)
        r1 == <<Makedirs>>
        r2 == r1 \o <<Office(actual_html_file, e.office)>>
        r3 == r2 \o <<Markup("markitdown", cleaned_html_file, "html")>>
    IN  IF ~c.markitdown THEN Done("False", d, {}, <<>>)
        ELSE IF check_executable(c, "soffice") # "True"
             THEN Done(check_executable(c, "soffice"), d, {}, <<>>)
        ELSE IF MakedirsRaises(c) THEN Done("False", d, {}, r1)
        ELSE IF e.office = "failed" THEN Done("False", d, {}, r2)
        ELSE IF actual_html_file \notin d1 THEN Done("False", d1, made, r2)
        ELSE IF e.read = "raises"
             THEN Done("False", d1 \ {actual_html_file}, made, r2)
        ELSE IF e.markup = "failed"
             THEN Done("False", d2 \ {actual_html_file},
                       made \cup {cleaned_html_file}, r3)
        ELSE Done("True",
                  (d2 \cup {md_file}) \ {cleaned_html_file, actual_html_file},
                  made \cup {cleaned_html_file}, r3)

\* The number of variants process_fodt_files calls for a document.
Variants(script) == IF script = ConvertTest THEN 4 ELSE 5

\* pypandoc.download_pandoc() returns, with pandoc installed, or raises.
DownloadOutcomes == {"returns", "raises"}

\* convert_test_pandoc.py, ensure_pandoc: pandoc is there, or is downloaded;
\* whatever pypandoc.get_pandoc_version() raises is caught.
ensure_pandoc(c, download) == c.pandoc = "installed" \/ download = "returns"

\* convert_test.py lines 382-390, the probes of process_fodt_files: "True"
\* where the loop is to be entered, "False" where pandoc is missing, and
\* the exception of a probe that raised.
tools_available(c) ==
    LET soffice == check_executable(c, "soffice")
        pandoc == check_executable(c, "pandoc")
    IN  IF soffice = "PermissionError" THEN soffice
        ELSE IF soffice = "False" /\ pandoc # "True" THEN pandoc
        ELSE IF soffice = "False" THEN "True"
        ELSE pandoc

\* Where process_fodt_files stands after its probes ended with this result.
AfterProbes(result) ==
    IF result = "True" THEN "loop"
    ELSE IF result = "False" THEN "returned False"
    ELSE "raised at start"

\* process_fodt_files up to its loop: the directory search and the checks of
\* the tools.  convert_test.py returns where pandoc is missing;
\* convert_test_pandoc.py tries to download a missing pandoc, returns where
\* that fails too, and then probes the office suite for a warning.  A probe
\* that raises leaves process_fodt_files.
ProcessStart ==
    /\ conv.pc = "start"
    /\ \E download \in DownloadOutcomes :
          conv' =
            IF conv.fodt_files = <<>> THEN [conv EXCEPT !.pc = "returned False"]
            ELSE IF conv.script = ConvertTest
            THEN [conv EXCEPT !.pc = AfterProbes(tools_available(conv))]
            ELSE IF ~ensure_pandoc(conv, download)
            THEN [conv EXCEPT !.pc = "returned False"]
            ELSE [conv EXCEPT
                    !.pc = IF check_executable(conv, "soffice") = "PermissionError"
                           THEN "raised at start" ELSE "loop",
                    !.pandoc = "installed"]
    /\ UNCHANGED <<disk, calls, last, outsideConvert>>

\* The loop of process_fodt_files stands before the call of this variant,
\* or the variant is called on a document by itself.
At(script, variant) ==
    /\ conv.pc \in {"loop", "call"}
    /\ conv.script = script
    /\ conv.variant = variant

\* The call of a variant has ended with result r: an exception leaves
\* process_fodt_files, anything else moves the loop on; a call of the
\* variant by itself has returned or raised.  Of the call are
\* kept the intermediate files it wrote and left, and the files it found
\* and removed or wrote over.
After(r) ==
    /\ calls' = Append(calls, <<conv.fodt_files[conv.file], conv.variant>>)
    /\ last' = <<[fodt_file |-> conv.fodt_files[conv.file],
                  variant |-> conv.variant,
                  returned |-> r.returned,
                  harmed |-> (disk \ r.disk) \cup (disk \cap r.made),
                  made |-> r.made,
                  ran |-> r.ran,
                  left |-> {f \in r.made \cap r.disk :
                               f[3] \in IntermediateSuffixes}]>>
    /\ disk' = r.disk
    /\ conv' =
         IF conv.pc = "call"
         THEN [conv EXCEPT !.pc = IF r.returned \in {"True", "False"}
                                  THEN "call returned" ELSE "call raised"]
         ELSE IF r.returned \notin {"True", "False"}
         THEN [conv EXCEPT !.pc = "raised"]
         ELSE IF conv.variant < Variants(conv.script)
         THEN [conv EXCEPT !.variant = @ + 1]
         ELSE IF conv.file < Len(conv.fodt_files)
         THEN [conv EXCEPT !.file = @ + 1, !.variant = 1]
         ELSE [conv EXCEPT !.pc = "returned True"]
    /\ UNCHANGED outsideConvert

\* convert_test.py, the four calls in the loop of process_fodt_files
HtmlVariant ==
    /\ At(ConvertTest, 1)
    /\ \E e \in OneConversion :
          After(convert_fodt_to_html_variant(conv, conv.fodt_files[conv.file], disk, e))

OdtVariant ==
    /\ At(ConvertTest, 2)
    /\ \E e \in OneConversion :
          After(convert_fodt_to_odt_variant(conv, conv.fodt_files[conv.file], disk, e))

ZipVariant ==
    /\ At(ConvertTest, 3)
    /\ \E e \in NoConversion :
          After(convert_fodt_zip_variant(conv, conv.fodt_files[conv.file], disk, e))

DocVariant ==
    /\ At(ConvertTest, 4)
    /\ \E e \in Surroundings :
          After(convert_fodt_to_doc_variant(conv, conv.fodt_files[conv.file], disk, e))

\* convert_test_pandoc.py, the five calls in the loop of process_fodt_files
HtmlVariantPandoc ==
    /\ At(ConvertTestPandoc, 1)
    /\ \E e \in OneConversion :
          After(convert_fodt_to_html_variant_pandoc(conv, conv.fodt_files[conv.file], disk, e))

OdtVariantPandoc ==
    /\ At(ConvertTestPandoc, 2)
    /\ \E e \in OneConversion :
          After(convert_fodt_to_odt_variant_pandoc(conv, conv.fodt_files[conv.file], disk, e))

FallbackVariant ==
    /\ At(ConvertTestPandoc, 3)
    /\ \E e \in Surroundings :
          After(convert_fodt_fallback_variant(conv, conv.fodt_files[conv.file], disk, e))

HtmlToMarkdownVariant ==
    /\ At(ConvertTestPandoc, 4)
    /\ \E e \in ReadConversion :
          After(convert_fodt_html_to_markdown_variant(conv, conv.fodt_files[conv.file], disk, e))

MarkItDownVariant ==
    /\ At(ConvertTestPandoc, 5)
    /\ \E e \in ReadConversion :
          After(convert_fodt_vertopal_markitdown_variant(conv, conv.fodt_files[conv.file], disk, e))

\* A run of either script, or a call of one of its variants on a document:
\* what the tools are to their probes, whether the MarkItDown import
\* succeeded, what output_dir names, and the documents the directory holds.
ConvRuns ==
    {c \in [script : {ConvertTest, ConvertTestPandoc},
            soffice : ToolStates, pandoc : ToolStates, markitdown : BOOLEAN,
            output_dir : {"directory", "file"},
            fodt_files : {find_fodt_files(n) : n \in 0..MaxSources},
            pc : {"start", "call"}, file : {1}, variant : 1..5, exit : {-1}] :
        /\ c.script = ConvertTest => c.markitdown
        /\ c.pc = "start" => c.variant = 1
        /\ c.pc = "call" => /\ c.fodt_files = find_fodt_files(1)
                            /\ c.variant <= Variants(c.script)}

\* Files that lie in the two directories before the script starts: none, or
\* one that carries the name of the first document, left by an earlier run.
\* A file is drawn for the script that has a variant using its name: the
\* ODT beside the source for convert_test.py, the image for
\* convert_test_pandoc.py, the HTML for both.
StaleFiles ==
    {File(SourceDir, 1, ".odt"), File(OutputDir, 1, ".html"),
     File(OutputDir, 1, "_html_0.png")}
InitialDisks(c) ==
    {{}} \cup {{f} : f \in {g \in StaleFiles :
                                /\ c.fodt_files # <<>>
                                /\ g[1] = OutputDir => c.output_dir = "directory"
                                /\ g[3] \in ImageSuffixes =>
                                        c.script = ConvertTestPandoc
                                /\ g[1] = SourceDir => c.script = ConvertTest}}

InitConvert ==
    /\ conv \in ConvRuns
    /\ disk \in InitialDisks(conv)
    /\ calls = <<>>
    /\ last = <<>>
    /\ TrackerIdle
    /\ RegistryIdle
    /\ KeysIdle
    /\ MetaIdle

\* main: the exit status is 0 where process_fodt_files returned True, 1
\* where it returned False (sys.exit(1)) and 1 where an exception left it.
MainExit ==
    /\ conv.pc \in {"returned True", "returned False", "raised", "raised at start"}
    /\ conv.exit = -1
    /\ conv' = [conv EXCEPT !.exit = IF conv.pc = "returned True" THEN 0 ELSE 1]
    /\ UNCHANGED <<disk, calls, last, outsideConvert>>

NextConvert ==
    \/ ProcessStart
    \/ MainExit
    \/ HtmlVariant
    \/ OdtVariant
    \/ ZipVariant
    \/ DocVariant
    \/ HtmlVariantPandoc
    \/ OdtVariantPandoc
    \/ FallbackVariant
    \/ HtmlToMarkdownVariant
    \/ MarkItDownVariant

SpecConvert == InitConvert /\ [][NextConvert]_vars

(***************************************************************************)
(* Properties of the format converters                                     *)
(***************************************************************************)
\* The calls process_fodt_files is to make: every variant of every document
\* found, document by document, the variants in their order.
ExpectedCalls ==
    [k \in 1..(Len(conv.fodt_files) * Variants(conv.script)) |->
        <<conv.fodt_files[((k - 1) \div Variants(conv.script)) + 1],
          ((k - 1) % Variants(conv.script)) + 1>>]

\* A variant is called by itself, not by process_fodt_files.
DirectCall == conv.pc \in {"call", "call returned", "call raised"}

\* process_fodt_files went into its loop and has left it.
LoopLeft == conv.pc \in {"returned True", "raised"}

\* C19: for every source document found, process_fodt_files attempts every
\* conversion variant exactly once and in the fixed order, whatever the
\* earlier variants and the earlier documents returned or raised: the calls
\* made are always a beginning of the expected calls, and all of them once
\* the loop is left.
C19_VariantIndependence ==
    ~DirectCall =>
        /\ Len(calls) <= Len(ExpectedCalls)
        /\ calls = SubSeq(ExpectedCalls, 1, Len(calls))
        /\ LoopLeft => calls = ExpectedCalls

\* C20: whenever a conversion variant returns, on its success path and on
\* every failure path, none of the intermediate files it wrote remains, and
\* nothing is raised past the caller.
C20_IntermediatesRemoved ==
    last # <<>> =>
        /\ last[1].returned \in {"True", "False"}
        /\ last[1].left = {}

\* The tools and libraries a variant looks for before it does anything.
Requires(script, variant) ==
    IF script = ConvertTest
    THEN IF variant = 3 THEN {"pandoc"} ELSE {"soffice", "pandoc"}
    ELSE IF variant = 5 THEN {"markitdown", "soffice"} ELSE {"soffice"}

\* The step is a call of a variant.
VariantCalled == calls' # calls

\* The probe of this tool does not succeed; for the MarkItDown library the
\* probe is its import.
ProbeFails(tool) ==
    IF tool = "markitdown" THEN ~conv.markitdown
    ELSE check_executable(conv, tool) # "True"

\* The step is a call of a variant that returns a failure and has neither
\* created the output directory, nor run a converter, nor touched a file.
Skipped ==
    /\ last'[1].returned = "False"
    /\ last'[1].ran = <<>>
    /\ disk' = disk

\* C21: a variant called where the version probe of one of the tools it
\* requires fails returns a failure result and has by then neither created
\* the output directory, nor written or removed any file, nor run any
\* converter; it does not raise.
C21_MissingToolSkip ==
    [][(/\ VariantCalled
        /\ \E tool \in Requires(conv.script, conv.variant) : ProbeFails(tool))
       => Skipped]_vars

\* A variant called where a probe fails, and whose first failing probe
\* returns False rather than raising, is skipped.
MissingToolSkipped ==
    [][(/\ VariantCalled
        /\ \E tool \in Requires(conv.script, conv.variant) : ProbeFails(tool)
        /\ last'[1].returned \in {"True", "False"})
       => Skipped]_vars

\* main has ended.
Exited == conv.exit # -1

\* C22: a conversion script exits 0 whenever a source document was found and
\* attempted, whatever the variants returned, and exits 1 only when no
\* source document is found or the tool every variant requires is missing.
C22_ExitStatus ==
    Exited =>
        /\ calls # <<>> => conv.exit = 0
        /\ conv.exit = 1 => (conv.fodt_files = <<>> \/ ProbeFails("pandoc"))

\* The conversions by the office suite and the runs of pandoc among the
\* calls a variant made.
Conversions(ran) == SelectSeq(ran, LAMBDA x : x[1] = "soffice")
PandocRuns(ran) == SelectSeq(ran, LAMBDA x : x[1] = "pandoc")

\* C24: in variant 4 of convert_test.py the RTF conversion is attempted if
\* and only if the DOC conversion ended with a non-zero status; pandoc is
\* given exactly the intermediate file of the conversion that ended with
\* status 0, with the input format of its extension; and the variant
\* returns a failure without running pandoc when both conversions ended
\* with a non-zero status or the chosen intermediate file does not exist.
C24_FallbackOrder ==
    [][(/\ VariantCalled
        /\ conv.script = ConvertTest
        /\ conv.variant = 4
        /\ Conversions(last'[1].ran) # <<>>)
       => LET call == last'[1]
              fodt_file == call.fodt_file
              o == Conversions(call.ran)
              chosen == o[Len(o)]
              exists == chosen[2] \in disk \cup call.made
              usable == chosen[3] = 0 /\ exists
          IN  /\ o[1][2] = File(SourceDir, fodt_file, ".doc")
              /\ Len(o) = 2 <=> o[1][3] # 0
              /\ Len(o) = 2 => o[2][2] = File(SourceDir, fodt_file, ".rtf")
              /\ usable =>
                    \E format \in {"doc", "rtf"} :
                       /\ PandocRuns(call.ran) = <<<<"pandoc", chosen[2], format>>>>
                       /\ chosen[2][3] = ".doc" <=> format = "doc"
                       /\ chosen[2][3] = ".rtf" <=> format = "rtf"
              /\ ~usable =>
                    /\ PandocRuns(call.ran) = <<>>
                    /\ call.returned = "False"]_vars

\* Variant 4 of convert_test.py fell back to RTF and pandoc converted it.
C24_Witness ==
    /\ last # <<>>
    /\ conv.script = ConvertTest
    /\ last[1].variant = 4
    /\ Len(Conversions(last[1].ran)) = 2
    /\ PandocRuns(last[1].ran) =
          <<<<"pandoc", File(SourceDir, last[1].fodt_file, ".rtf"), "rtf">>>>
    /\ last[1].returned = "True"

\* C30: a conversion variant removes or writes over no file that existed
\* before the call, its own Markdown output aside: every file found beside
\* the source document or in the output directory is there, as it was, after
\* the call.
C30_ConversionFrame ==
    last # <<>> => last[1].harmed = {}

(***************************************************************************)
(* Further properties of the conversion state tracker                      *)
(***************************************************************************)
\* The success map of the state file the run started from: empty where the
\* file holds none.
PriorSuccessful ==
    LET st == ReadState(fs[CurrentState]) IN
    IF IsDict(st) /\ "successfulFiles" \in DOMAIN st.o
                  /\ IsDict(st.o["successfulFiles"])
    THEN DOMAIN st.o["successfulFiles"].o ELSE {}

\* C23: after a completed run the keys of successfulFiles are exactly the
\* paths listed in PROCESSED_FILES and not in FAILED_FILES of that run,
\* whatever success records the prior state held, and lastProcessedCommit is
\* that run's GITHUB_SHA.
C23_SuccessfulPerRun ==
    pc = "done" =>
        /\ DOMAIN NewSuccessful.o = Listed(PROCESSED_FILES) \ Listed(FAILED_FILES)
        /\ Load(fs[NewState]).o["lastProcessedCommit"] = JStr(current_commit)

\* A completed run with a success of its own, from a state that held the
\* success record of another path.
C23_Witness ==
    /\ pc = "done"
    /\ DOMAIN NewSuccessful.o # {}
    /\ PriorSuccessful \ DOMAIN NewSuccessful.o # {}

\* C25: in one completed run the attemptCount of a path listed in
\* FAILED_FILES goes up by exactly 1, or is 1 where the path had no record,
\* however many times the path is listed.
C25_OneIncrementPerRun ==
    pc = "done" =>
        \A p \in Listed(FAILED_FILES) :
            NewFailed.o[p].o["attemptCount"].n =
                IF Contains(PriorFailed, p)
                THEN PriorFailed.o[p].o["attemptCount"].n + 1
                ELSE 1

\* C26: after a completed run no path is a key of both failedFiles and
\* successfulFiles.
C26_Disjoint ==
    pc = "done" =>
        \A p \in Paths : ~(Contains(NewFailed, p) /\ Contains(NewSuccessful, p))

\* A completed run in which one path was listed as processed and as failed
\* and another path, with a failure record, succeeded.
C26_Witness ==
    /\ pc = "done"
    /\ Listed(PROCESSED_FILES) \cap Listed(FAILED_FILES) # {}
    /\ \E q \in Listed(PROCESSED_FILES) \ Listed(FAILED_FILES) :
            Contains(PriorFailed, q)

\* The path succeeded in the promoted run before this one.
SucceededBefore(p) ==
    /\ last_run.known
    /\ p \in Elems(last_run.processed) \ Elems(last_run.failed)

\* C27: over promoted runs, a file that succeeded in a run has no failure
\* record after it, and when it fails in the next run its attemptCount is 1
\* and it is a retry candidate; every failure record a run writes for a
\* failed file has an attemptCount of at least 1.
C27_CounterReset ==
    \A p \in Paths :
        /\ (pc = "idle" /\ SucceededBefore(p)) => ~Tracked(fs[CurrentState], p)
        /\ (pc = "done" /\ SucceededBefore(p) /\ p \in Listed(FAILED_FILES)) =>
                /\ NewFailed.o[p].o["attemptCount"] = JNum(1)
                /\ Candidate(fs[NewState], p)
        /\ (pc = "done" /\ p \in Listed(FAILED_FILES)) =>
                NewFailed.o[p].o["attemptCount"].n >= 1

(***************************************************************************)
(* Further properties of the frontmatter composer                          *)
(***************************************************************************)
\* This call of create_meta is given the file the call before it returned,
\* with the same provenance arguments; the date is Today in both.
AppliedAgain ==
    /\ Returned
    /\ mruns' = mruns + 1
    /\ meta'[1].outcome = "returned"
    /\ meta'[1].file_path = meta[1].returned
    /\ meta'[1].original_source_path = meta[1].original_source_path
    /\ meta'[1].source_dir_type = meta[1].source_dir_type

\* C28: a second call of create_meta on the document the first call
\* returned, with the same arguments on the same day, leaves the document as
\* the first call wrote it, and extracts the same title, version, type, tags
\* and CID as the first call did.
C28_HeaderStable ==
    [][AppliedAgain =>
        /\ mfiles'[meta'[1].returned] = mfiles[meta[1].returned]
        /\ meta'[1].title = meta[1].title
        /\ meta'[1].fields.version = meta[1].fields.version
        /\ meta'[1].fields.component_type = meta[1].fields.component_type
        /\ meta'[1].fields.tags = meta[1].fields.tags
        /\ meta'[1].fields.cid = meta[1].fields.cid]_vars

\* C29: a call of create_meta leaves every file other than the one it was
\* given as it was, so that after calls on the artifacts of a directory one
\* after another each document is under a path of its own and the directory
\* holds as many documents as it held artifacts.
C29_NoClobber ==
    Returned =>
        /\ \A p \in DOMAIN meta[1].before \ {meta[1].file_path} :
                p \in DOMAIN mfiles /\ mfiles[p] = meta[1].before[p]
        /\ Cardinality(DOMAIN mfiles) = Cardinality(DOMAIN meta[1].before)

====
